---- MODULE Spec2Model ----
(***************************************************************************)
(* A model of the GPX sampling audit (auditSampling) and of the log-space  *)
(* density estimator (computeKDE, detectPeaks, visualizeSamplingData) of   *)
(* src/js/sampling-audit.js.                                               *)
(*                                                                         *)
(* JavaScript numbers are records [k, v]: k = "fin" with the value v,      *)
(* k = "nan", or k = "inf" with the sign v.  Integer quantities            *)
(* (milliseconds, metres, counters) hold v as is; real-valued quantities   *)
(* (seconds, log-space positions, bandwidths, densities) are fixed point   *)
(* with v counting units of 1/1000, and every product or quotient is      *)
(* rounded to the nearest unit, as a double rounds to its last place.      *)
(***************************************************************************)
EXTENDS Integers, Sequences, FiniteSets, TLC

(***************************************************************************)
(* Bounds of the model.                                                    *)
(***************************************************************************)
MaxPoints == 3

(***************************************************************************)
(* JavaScript values.                                                      *)
(***************************************************************************)
Null == <<>>

Some(x) == <<x>>

NaN == [k |-> "nan", v |-> 0]

Fin(x) == [k |-> "fin", v |-> x]

PosInf == [k |-> "inf", v |-> 1]

NegInf == [k |-> "inf", v |-> -1]

Inf(s) == IF s >= 0 THEN PosInf ELSE NegInf

isNaN(n) == n.k = "nan"

isFinite(n) == n.k = "fin"

Sign(x) == IF x > 0 THEN 1 ELSE IF x < 0 THEN -1 ELSE 0

\* a > b on numbers: false as soon as one side is NaN
jsGt(a, b) ==
  CASE isNaN(a) \/ isNaN(b) -> FALSE
    [] isFinite(a) /\ isFinite(b) -> a.v > b.v
    [] isFinite(a) -> b = NegInf
    [] isFinite(b) -> a = PosInf
    [] OTHER -> a = PosInf /\ b = NegInf

\* a <= b on numbers: false as soon as one side is NaN
jsLeq(a, b) == ~isNaN(a) /\ ~isNaN(b) /\ ~jsGt(a, b)

fNeg(a) == IF isNaN(a) THEN NaN ELSE [a EXCEPT !.v = -a.v]

fAdd(a, b) ==
  CASE isNaN(a) \/ isNaN(b) -> NaN
    [] isFinite(a) /\ isFinite(b) -> Fin(a.v + b.v)
    [] isFinite(a) -> b
    [] isFinite(b) -> a
    [] OTHER -> IF a = b THEN a ELSE NaN

fSub(a, b) == fAdd(a, fNeg(b))

(***************************************************************************)
(* Points.  Coordinates lie on a 60-degree lattice, where the sines and    *)
(* cosines of the haversine formula are rational; timeRaw is Null or       *)
(* Some(string).                                                           *)
(***************************************************************************)
Coords ==
  { [lat |-> 0, lon |-> 0], [lat |-> 0, lon |-> 60], [lat |-> 60, lon |-> 180] }

TimeRaws ==
  { Null, Some("not-a-date"), Some("1970-01-01T00:00:01Z"),
    Some("1970-01-01T00:00:02.500Z") }

PointSet ==
  { [lat |-> c.lat, lon |-> c.lon, timeRaw |-> t] : c \in Coords, t \in TimeRaws }

SeqsUpTo(S, n) == UNION { [1..m -> S] : m \in 0..n }

\* Date.parse: milliseconds since the epoch, NaN for a string that is no date
DateParse(s) ==
  CASE s = "1970-01-01T00:00:00Z" -> Fin(0)
    [] s = "1970-01-01T00:00:01Z" -> Fin(1000)
    [] s = "1970-01-01T00:00:01.000Z" -> Fin(1000)
    [] s = "1970-01-01T00:00:02.001Z" -> Fin(2001)
    [] s = "1970-01-01T00:00:02.500Z" -> Fin(2500)
    [] s = "1970-01-01T00:00:00.001Z" -> Fin(1)
    [] s = "1970-01-01T00:00:00.003Z" -> Fin(3)
    [] s = "1970-01-01T00:00:00.006Z" -> Fin(6)
    [] s = "1970-01-01T00:00:00.007Z" -> Fin(7)
    [] s = "1970-01-01T00:00:00.010Z" -> Fin(10)
    [] OTHER -> NaN

(***************************************************************************)
(* haversineDistance, in whole metres.  twoCos(d) is 2*cos(d degrees) and  *)
(* a16 is 16*a, both exact on the lattice: sin^2(x/2) = (2 - 2cos x)/4.    *)
(***************************************************************************)
R == 6371000

twoCos(deg) ==
  LET d == ((deg % 360) + 360) % 360
  IN CASE d = 0 -> 2
       [] d = 60 \/ d = 300 -> 1
       [] d = 120 \/ d = 240 -> -1
       [] OTHER -> -2

\* 2 * Math.atan2(Math.sqrt(a), Math.sqrt(1 - a)) in milliradians, a = a16/16;
\* Math.sqrt of a negative 1 - a is NaN, and so is the angle
centralAngle(a16) ==
  IF a16 > 16 \/ a16 < 0 THEN NaN
  ELSE Fin(<<0, 505, 723, 896, 1047, 1186, 1318, 1445, 1571, 1696, 1823,
             1955, 2094, 2246, 2419, 2636, 3142>>[a16 + 1])

haversineDistance(lat1, lon1, lat2, lon2) ==
  LET dLat == lat2 - lat1
      dLon == lon2 - lon1
      a16 == 4 * (2 - twoCos(dLat))
             + twoCos(lat1) * twoCos(lat2) * (2 - twoCos(dLon))
      c == centralAngle(a16)
  IN IF isNaN(c) THEN NaN ELSE Fin((R \div 1000) * c.v)

(***************************************************************************)
(* Fixed-point arithmetic of real-valued quantities (units of 1/1000).     *)
(***************************************************************************)
Abs(x) == IF x < 0 THEN -x ELSE x

\* x / y rounded to the nearest integer, y # 0
RoundDiv(x, y) == Sign(x) * Sign(y) * ((Abs(x) + (Abs(y) \div 2)) \div Abs(y))

\* an integer quantity as a fixed-point one
asFixed(a) == IF isFinite(a) THEN Fin(a.v * 1000) ELSE a

\* a / b for a and b in the same unit; the quotient is fixed point
fDiv(a, b) ==
  CASE isNaN(a) \/ isNaN(b) -> NaN
    [] isFinite(a) /\ isFinite(b) ->
         IF b.v = 0 THEN (IF a.v = 0 THEN NaN ELSE Inf(a.v))
         ELSE Fin(RoundDiv(a.v * 1000, b.v))
    [] isFinite(a) -> Fin(0)
    [] isFinite(b) -> Inf(a.v * (IF b.v < 0 THEN -1 ELSE 1))
    [] OTHER -> NaN

\* a * b for fixed-point a and b
fMul(a, b) ==
  CASE isNaN(a) \/ isNaN(b) -> NaN
    [] isFinite(a) /\ isFinite(b) -> Fin(RoundDiv(a.v * b.v, 1000))
    [] isFinite(a) -> IF a.v = 0 THEN NaN ELSE Inf(a.v * b.v)
    [] isFinite(b) -> IF b.v = 0 THEN NaN ELSE Inf(a.v * b.v)
    [] OTHER -> Inf(a.v * b.v)

(***************************************************************************)
(* State.  points is the argument of auditSampling, audit holds its local  *)
(* variables, i is the index of the running loop and result is Null until  *)
(* the call returns.                                                       *)
(***************************************************************************)
VARIABLES points, pc, i, audit, result

(***************************************************************************)
(* data, bandwidth and numPoints are the arguments of a computeKDE call    *)
(* (numPoints Null when omitted), kdeOutcome says how the call ended,      *)
(* kdePoints is the curve and peaks the list detectPeaks made of it.       *)
(***************************************************************************)
VARIABLES data, bandwidth, numPoints, kdeOutcome, kdePoints, peaks

(***************************************************************************)
(* samplingData and options are the arguments of visualizeSamplingData,    *)
(* window holds the four globals it stores for the bandwidth sliders (Null *)
(* while undefined) and plots the curves and peaks last handed to          *)
(* renderKDEPlot.                                                          *)
(***************************************************************************)
VARIABLES samplingData, options, window, plots

(***************************************************************************)
(* tsLocals holds the local variables of auditTimestamps (which runs on    *)
(* points with loop index i) and auditMetadata its return value; gpxDoc is *)
(* the document handed to parseGPX, gpxLocals its local variables and      *)
(* gpxResult how the call ended.  All are Null while not in use.           *)
(***************************************************************************)
VARIABLES tsLocals, auditMetadata, gpxDoc, gpxLocals, gpxResult

auditVars == <<points, i, audit, result>>

kdeVars == <<data, bandwidth, numPoints, kdeOutcome, kdePoints, peaks>>

vizVars == <<samplingData, options, window, plots>>

tsVars == <<tsLocals, auditMetadata>>

gpxVars == <<gpxDoc, gpxLocals, gpxResult>>

vars == <<points, pc, i, audit, result,
          data, bandwidth, numPoints, kdeOutcome, kdePoints, peaks,
          samplingData, options, window, plots,
          tsLocals, auditMetadata, gpxDoc, gpxLocals, gpxResult>>

\* the variables of the other component, at rest
AuditIdle == points = <<>> /\ i = 0 /\ audit = <<>> /\ result = Null

KdeIdle ==
  /\ data = <<>> /\ bandwidth = NaN /\ numPoints = Null
  /\ kdeOutcome = "none" /\ kdePoints = <<>> /\ peaks = <<>>

NoWindow ==
  [ kdeTimeDeltasSec |-> Null, kdeDistanceDeltasM |-> Null,
    kdeTimeBandwidthLog |-> Null, kdeDistanceBandwidthLog |-> Null ]

NoPlots == [ timeKDE |-> <<>>, timePeaks |-> <<>>, distanceKDE |-> <<>>, distancePeaks |-> <<>> ]

VizIdle ==
  /\ samplingData = [timeDeltasMs |-> <<>>, distanceDeltasM |-> <<>>]
  /\ options = [timeBandwidth |-> Null, distanceBandwidth |-> Null]
  /\ window = NoWindow
  /\ plots = NoPlots

TsIdle == tsLocals = Null /\ auditMetadata = Null

GpxIdle == gpxDoc = Null /\ gpxLocals = Null /\ gpxResult = Null

\* the locals of auditSampling as declared, before any loop runs
AuditLocals ==
  [ timeDeltasMs |-> <<>>,
    distanceDeltasMTimeConditioned |-> <<>>,
    distanceDeltasMGeometryOnly |-> <<>>,
    timeDistancePairs |-> <<>>,
    previousTimestampMs |-> Null,
    previousPoint |-> Null,
    hasValidTimestamps |-> FALSE,
    hasTimeProgression |-> FALSE,
    timestampedPointsCount |-> 0,
    consecutiveTimestampPairsCount |-> 0,
    positiveTimeDeltasCollected |-> 0,
    rejectedTimestampPairsDeltaLeqZero |-> 0,
    nonPositiveTimeDeltaEvents |-> <<>>,
    consecutivePointPairsConsidered |-> 0,
    rejectedDistanceInvalidOrZero |-> 0,
    previousTimestampIndex |-> Null,
    distanceDeltasM |-> <<>>,
    totalDeltaCount |-> 0,
    minDeltaMs |-> Null,
    maxDeltaMs |-> Null,
    medianDeltaMs |-> Null,
    jointConsecutivePairsInspected |-> 0,
    jointPairsWithBothTimestamps |-> 0,
    jointRejectedMissingTimestamp |-> 0,
    jointRejectedNonPositiveDt |-> 0,
    jointRejectedInvalidOrZeroDistance |-> 0,
    jointValidPairsCollected |-> 0,
    prevPoint |-> Null,
    prevTimestampMs |-> Null ]

InitAudit ==
  /\ points \in SeqsUpTo(PointSet, MaxPoints)
  /\ pc = "scan"
  /\ i = 0
  /\ audit = AuditLocals
  /\ result = Null
  /\ KdeIdle
  /\ VizIdle
  /\ TsIdle
  /\ GpxIdle

\* a slip: only the null test, an unparseable timeRaw counts as a timestamp
hasValidTimestamp_UnparsedKept(point) == point.timeRaw # Null

\* timeRaw !== null and Date.parse(timeRaw) is not NaN
hasValidTimestamp(point) ==
  point.timeRaw # Null /\ ~isNaN(DateParse(point.timeRaw[1]))

\* a slip: the scan stops after the first point, parseable or not
AnyValidTimestamp_FirstPointOnly(pts) ==
  Len(pts) > 0 /\ hasValidTimestamp(pts[1])

\* the flag the first loop leaves: it breaks at the first parseable timeRaw
AnyValidTimestamp(pts) ==
  \E k \in 1..Len(pts) : hasValidTimestamp(pts[k])

\* the first loop: any parseable timestamp present
PresenceScan ==
  /\ pc = "scan"
  /\ audit' = [audit EXCEPT !.hasValidTimestamps = AnyValidTimestamp(points)]
  /\ pc' = "primary"
  /\ i' = 0
  /\ UNCHANGED <<points, result>>
  /\ UNCHANGED kdeVars
  /\ UNCHANGED vizVars
  /\ UNCHANGED tsVars
  /\ UNCHANGED gpxVars

\* a slip: the test for a zero distance is left out
DistanceAccepted_ZeroKept(distance) == isFinite(distance)

\* isFinite(distance) && distance > 0
DistanceAccepted(distance) == isFinite(distance) /\ jsGt(distance, Fin(0))

\* a slip: a zero delta passes the test
DeltaPositive_ZeroAccepted(delta) == ~jsGt(Fin(0), delta) /\ ~isNaN(delta)

\* delta > 0
DeltaPositive(delta) == jsGt(delta, Fin(0))

\* a slip: the flag is never raised
TimeProgressionAfter_NeverSet(hasTimeProgression, positive) == hasTimeProgression

\* hasTimeProgression = true, in the branch that pushes a positive delta
TimeProgressionAfter(hasTimeProgression, positive) ==
  IF positive THEN TRUE ELSE hasTimeProgression

\* a slip: the raw timestamp of the point is replaced by its normal form
PointsAfterIteration_Normalized(pts, k) ==
  [pts EXCEPT ![k].timeRaw =
     IF hasValidTimestamp(pts[k]) /\ DateParse(pts[k].timeRaw[1]) = Fin(1000)
     THEN Some("1970-01-01T00:00:01.000Z") ELSE @]

\* the points array after the iteration on its k-th point: the loop body
\* reads point.timeRaw, point.lat and point.lon and assigns to none of them
PointsAfterIteration(pts, k) == pts

\* a slip: previousPoint follows the timestamped points only
PreviousPointAfter_OnlyTimestamped(previousPoint, point) ==
  IF hasValidTimestamp(point)
  THEN Some([lat |-> point.lat, lon |-> point.lon]) ELSE previousPoint

\* previousPoint = { lat: point.lat, lon: point.lon }, at the end of every
\* iteration
PreviousPointAfter(previousPoint, point) ==
  Some([lat |-> point.lat, lon |-> point.lon])

\* a slip: the distance is taken from the previous timestamped point
TimeConditionedDistance_FromTimestamped(previousPoint, point) ==
  haversineDistance(points[audit.previousTimestampIndex[1] + 1].lat,
                    points[audit.previousTimestampIndex[1] + 1].lon,
                    point.lat, point.lon)

\* a slip: the distance is taken from the start of the track
TimeConditionedDistance_FromFirstPoint(previousPoint, point) ==
  haversineDistance(points[1].lat, points[1].lon, point.lat, point.lon)

\* the distance of the time-conditioned series, for a pair with delta > 0
TimeConditionedDistance(previousPoint, point) ==
  haversineDistance(previousPoint.lat, previousPoint.lon, point.lat, point.lon)

\* a slip: the anchor stays where it is when the delta is rejected
PreviousTimestampAfter_OnlyWhenAccepted(previousTimestampMs, currentTimestampMs, valid) ==
  IF valid /\ (previousTimestampMs = Null
                 \/ jsGt(currentTimestampMs, previousTimestampMs[1]))
  THEN Some(currentTimestampMs) ELSE previousTimestampMs

\* previousTimestampMs = currentTimestampMs, at the end of the branch taken by
\* every point with a valid timestamp
PreviousTimestampAfter(previousTimestampMs, currentTimestampMs, valid) ==
  IF valid THEN Some(currentTimestampMs) ELSE previousTimestampMs

\* one iteration of the primary loop, on points[i] (0-based i)
PrimaryIteration ==
  /\ pc = "primary"
  /\ i < Len(points)
  /\ LET point == points[i + 1]
         valid == hasValidTimestamp(point)
         currentTimestampMs == DateParse(point.timeRaw[1])
         hasPrev == audit.previousPoint # Null
         distance == haversineDistance(audit.previousPoint[1].lat,
                                       audit.previousPoint[1].lon,
                                       point.lat, point.lon)
         geoOk == hasPrev /\ DistanceAccepted(distance)
         paired == valid /\ audit.previousTimestampMs # Null
         delta == fSub(currentTimestampMs, audit.previousTimestampMs[1])
         positive == paired /\ DeltaPositive(delta)
         rejected == paired /\ ~DeltaPositive(delta)
     IN audit' = [audit EXCEPT
          !.consecutivePointPairsConsidered = IF hasPrev THEN @ + 1 ELSE @,
          !.distanceDeltasMGeometryOnly = IF geoOk THEN Append(@, distance) ELSE @,
          !.rejectedDistanceInvalidOrZero = IF hasPrev /\ ~geoOk THEN @ + 1 ELSE @,
          !.timestampedPointsCount = IF valid THEN @ + 1 ELSE @,
          !.consecutiveTimestampPairsCount = IF paired THEN @ + 1 ELSE @,
          !.positiveTimeDeltasCollected = IF positive THEN @ + 1 ELSE @,
          !.timeDeltasMs = IF positive THEN Append(@, delta) ELSE @,
          !.hasTimeProgression = TimeProgressionAfter(@, positive),
          !.distanceDeltasMTimeConditioned =
             IF /\ positive
                /\ hasPrev
                /\ DistanceAccepted(TimeConditionedDistance(audit.previousPoint[1], point))
             THEN Append(@, TimeConditionedDistance(audit.previousPoint[1], point))
             ELSE @,
          !.rejectedTimestampPairsDeltaLeqZero = IF rejected THEN @ + 1 ELSE @,
          !.nonPositiveTimeDeltaEvents =
             IF rejected
             THEN Append(@, [index |-> i,
                             prevIndex |-> audit.previousTimestampIndex[1],
                             delta |-> delta])
             ELSE @,
          !.previousTimestampMs = PreviousTimestampAfter(@, currentTimestampMs, valid),
          !.previousTimestampIndex = IF valid THEN Some(i) ELSE @,
          !.previousPoint = PreviousPointAfter(@, point)]
  /\ points' = PointsAfterIteration(points, i + 1)
  /\ i' = i + 1
  /\ UNCHANGED <<pc, result>>
  /\ UNCHANGED kdeVars
  /\ UNCHANGED vizVars
  /\ UNCHANGED tsVars
  /\ UNCHANGED gpxVars

\* [...timeDeltasMs].sort((a, b) => a - b): insertion into a sorted prefix
RECURSIVE Insert(_, _)
Insert(x, sorted) ==
  IF sorted = <<>> THEN <<x>>
  ELSE IF jsGt(Head(sorted), x) THEN <<x>> \o sorted
  ELSE <<Head(sorted)>> \o Insert(x, Tail(sorted))

RECURSIVE Sort(_)
Sort(s) == IF s = <<>> THEN <<>> ELSE Insert(s[Len(s)], Sort(SubSeq(s, 1, Len(s) - 1)))

\* a slip: the upper central element for an even length, no average
Median_UpperCentral(sortedDeltas) == asFixed(sortedDeltas[(Len(sortedDeltas) \div 2) + 1])

\* the median of a sorted, non-empty series; fixed point (units of 1/1000 ms)
Median(sortedDeltas) ==
  LET mid == Len(sortedDeltas) \div 2
  IN IF Len(sortedDeltas) % 2 = 0
     THEN fDiv(fAdd(sortedDeltas[mid], sortedDeltas[mid + 1]), Fin(2))
     ELSE asFixed(sortedDeltas[mid + 1])

\* a slip: the count is one too many
TotalDeltaCount_OneTooMany(timeDeltasMs) == Len(timeDeltasMs) + 1

\* totalDeltaCount = timeDeltasMs.length
TotalDeltaCount(timeDeltasMs) == Len(timeDeltasMs)

\* a slip: the geometry-only series whatever the flag
PrimaryDistanceSeries_AlwaysGeometry(hasTimeProgression, timeConditioned, geometryOnly) ==
  geometryOnly

\* hasTimeProgression ? distanceDeltasMTimeConditioned : distanceDeltasMGeometryOnly
PrimaryDistanceSeries(hasTimeProgression, timeConditioned, geometryOnly) ==
  IF hasTimeProgression THEN timeConditioned ELSE geometryOnly

\* after the primary loop: the primary distance series and the statistics
Statistics ==
  /\ pc = "primary"
  /\ i = Len(points)
  /\ LET sortedDeltas == Sort(audit.timeDeltasMs)
         some == Len(audit.timeDeltasMs) > 0
     IN audit' = [audit EXCEPT
          !.distanceDeltasM =
             PrimaryDistanceSeries(audit.hasTimeProgression,
                                   audit.distanceDeltasMTimeConditioned,
                                   audit.distanceDeltasMGeometryOnly),
          !.totalDeltaCount = TotalDeltaCount(audit.timeDeltasMs),
          !.minDeltaMs = IF some THEN Some(sortedDeltas[1]) ELSE Null,
          !.maxDeltaMs = IF some THEN Some(sortedDeltas[Len(sortedDeltas)]) ELSE Null,
          !.medianDeltaMs = IF some THEN Some(Median(sortedDeltas)) ELSE Null]
  /\ pc' = "joint"
  /\ i' = 0
  /\ UNCHANGED <<points, result>>
  /\ UNCHANGED kdeVars
  /\ UNCHANGED vizVars
  /\ UNCHANGED tsVars
  /\ UNCHANGED gpxVars

\* a slip: the joint pass is skipped once a visualization has stored its data
JointPassRuns_UnlessVisualized(hasTimeProgression) ==
  hasTimeProgression /\ window.kdeTimeDeltasSec = Null

\* if (hasTimeProgression): whether the joint pass runs at all
JointPassRuns(hasTimeProgression) == hasTimeProgression

\* a slip: the test of dtSec is left out
JointPairAccepted_AnyDt(dtSec, ddMeters) == isFinite(ddMeters) /\ jsGt(ddMeters, Fin(0))

\* dtSec > 0 && isFinite(ddMeters) && ddMeters > 0
JointPairAccepted(dtSec, ddMeters) ==
  jsGt(dtSec, Fin(0)) /\ isFinite(ddMeters) /\ jsGt(ddMeters, Fin(0))

\* a slip: else-if, a refused pair is counted under its first reason only
JointRejections_FirstReasonOnly(dtSec, ddMeters) ==
  [ nonPositiveDt |-> jsLeq(dtSec, Fin(0)),
    invalidOrZeroDistance |->
      ~jsLeq(dtSec, Fin(0)) /\ (~isFinite(ddMeters) \/ jsLeq(ddMeters, Fin(0))) ]

\* the reasons counted for a refused pair: two separate if statements
JointRejections(dtSec, ddMeters) ==
  [ nonPositiveDt |-> jsLeq(dtSec, Fin(0)),
    invalidOrZeroDistance |-> ~isFinite(ddMeters) \/ jsLeq(ddMeters, Fin(0)) ]

\* a slip: a point without timestamp clears the previous timestamp
JointTimestampAfter_ClearedOnGap(prevTimestampMs, currentTimestampMs) ==
  currentTimestampMs

\* prevTimestampMs = currentTimestampMs, only if the current point has a
\* valid timestamp
JointTimestampAfter(prevTimestampMs, currentTimestampMs) ==
  IF currentTimestampMs # Null THEN currentTimestampMs ELSE prevTimestampMs

\* one iteration of the joint time-distance loop, on points[i] (0-based i)
JointIteration ==
  /\ pc = "joint"
  /\ JointPassRuns(audit.hasTimeProgression)
  /\ i < Len(points)
  /\ LET point == points[i + 1]
         currentTimestampMs ==
           IF hasValidTimestamp(point) THEN Some(DateParse(point.timeRaw[1])) ELSE Null
         hasPrev == audit.prevPoint # Null
         both == currentTimestampMs # Null /\ audit.prevTimestampMs # Null /\ hasPrev
         dtMs == fSub(currentTimestampMs[1], audit.prevTimestampMs[1])
         dtSec == fDiv(dtMs, Fin(1000))
         ddMeters == haversineDistance(audit.prevPoint[1].lat, audit.prevPoint[1].lon,
                                       point.lat, point.lon)
         accepted == both /\ JointPairAccepted(dtSec, ddMeters)
         refused == both /\ ~JointPairAccepted(dtSec, ddMeters)
     IN audit' = [audit EXCEPT
          !.jointConsecutivePairsInspected = IF hasPrev THEN @ + 1 ELSE @,
          !.jointPairsWithBothTimestamps = IF both THEN @ + 1 ELSE @,
          !.jointValidPairsCollected = IF accepted THEN @ + 1 ELSE @,
          !.timeDistancePairs =
             IF accepted THEN Append(@, [dtSec |-> dtSec, ddMeters |-> ddMeters]) ELSE @,
          !.jointRejectedNonPositiveDt =
             IF refused /\ JointRejections(dtSec, ddMeters).nonPositiveDt
             THEN @ + 1 ELSE @,
          !.jointRejectedInvalidOrZeroDistance =
             IF refused /\ JointRejections(dtSec, ddMeters).invalidOrZeroDistance
             THEN @ + 1 ELSE @,
          !.jointRejectedMissingTimestamp = IF ~both /\ hasPrev THEN @ + 1 ELSE @,
          !.prevPoint =
             IF currentTimestampMs # Null
             THEN Some([lat |-> point.lat, lon |-> point.lon]) ELSE @,
          !.prevTimestampMs = JointTimestampAfter(@, currentTimestampMs)]
  /\ i' = i + 1
  /\ UNCHANGED <<points, pc, result>>
  /\ UNCHANGED kdeVars
  /\ UNCHANGED vizVars
  /\ UNCHANGED tsVars
  /\ UNCHANGED gpxVars

\* a slip: the counters are not added to the result object
ResultOf_WithoutCounters(a) ==
  [ timeDeltasMs |-> a.timeDeltasMs,
    totalDeltaCount |-> a.totalDeltaCount,
    minDeltaMs |-> a.minDeltaMs,
    maxDeltaMs |-> a.maxDeltaMs,
    medianDeltaMs |-> a.medianDeltaMs,
    distanceDeltasM |-> a.distanceDeltasM,
    distanceDeltasMGeometryOnly |-> a.distanceDeltasMGeometryOnly,
    distanceDeltasMTimeConditioned |-> a.distanceDeltasMTimeConditioned,
    timeDistancePairs |-> a.timeDistancePairs,
    hasTimeProgression |-> a.hasTimeProgression,
    hasValidTimestamps |-> a.hasValidTimestamps ]

\* the result object, with the counters added before the return
ResultOf(a) ==
  [ timeDeltasMs |-> a.timeDeltasMs,
    totalDeltaCount |-> a.totalDeltaCount,
    minDeltaMs |-> a.minDeltaMs,
    maxDeltaMs |-> a.maxDeltaMs,
    medianDeltaMs |-> a.medianDeltaMs,
    distanceDeltasM |-> a.distanceDeltasM,
    distanceDeltasMGeometryOnly |-> a.distanceDeltasMGeometryOnly,
    distanceDeltasMTimeConditioned |-> a.distanceDeltasMTimeConditioned,
    timeDistancePairs |-> a.timeDistancePairs,
    hasTimeProgression |-> a.hasTimeProgression,
    hasValidTimestamps |-> a.hasValidTimestamps,
    rejectedTimestampPairsDeltaLeqZero |-> a.rejectedTimestampPairsDeltaLeqZero,
    consecutivePointPairsConsidered |-> a.consecutivePointPairsConsidered,
    rejectedDistanceInvalidOrZero |-> a.rejectedDistanceInvalidOrZero,
    jointPairsWithBothTimestamps |-> a.jointPairsWithBothTimestamps,
    jointRejectedMissingTimestamp |-> a.jointRejectedMissingTimestamp,
    jointRejectedNonPositiveDt |-> a.jointRejectedNonPositiveDt,
    jointRejectedInvalidOrZeroDistance |-> a.jointRejectedInvalidOrZeroDistance,
    nonPositiveTimeDeltaEvents |-> a.nonPositiveTimeDeltaEvents ]

\* the joint pass is over, or was skipped: auditSampling returns
Return ==
  /\ pc = "joint"
  /\ ~JointPassRuns(audit.hasTimeProgression) \/ i = Len(points)
  /\ result' = Some(ResultOf(audit))
  /\ pc' = "done"
  /\ UNCHANGED <<points, i, audit>>
  /\ UNCHANGED kdeVars
  /\ UNCHANGED vizVars
  /\ UNCHANGED tsVars
  /\ UNCHANGED gpxVars

Next == PresenceScan \/ PrimaryIteration \/ Statistics \/ JointIteration \/ Return

Spec == InitAudit /\ [][Next]_vars

\* the call keeps running until it returns: each loop iteration is followed by
\* the next statement
LivePointSet ==
  { [lat |-> 0, lon |-> c, timeRaw |-> t] : c \in {0, 60}, t \in TimeRaws }

InitLive ==
  /\ points \in SeqsUpTo(LivePointSet, MaxPoints)
  /\ pc = "scan"
  /\ i = 0
  /\ audit = AuditLocals
  /\ result = Null
  /\ KdeIdle
  /\ VizIdle
  /\ TsIdle
  /\ GpxIdle

SpecLive == InitLive /\ [][Next]_vars /\ WF_vars(Next)

(***************************************************************************)
(* auditSampling on the track of a receiver at rest whose timestamps are   *)
(* a few milliseconds apart, in any order: the time-delta series then has  *)
(* several distinct values, stored unsorted.                               *)
(***************************************************************************)
MaxStatPoints == 5

StatTimeRaws ==
  { Some("1970-01-01T00:00:00Z"), Some("1970-01-01T00:00:00.001Z"),
    Some("1970-01-01T00:00:00.003Z"), Some("1970-01-01T00:00:00.006Z"),
    Some("1970-01-01T00:00:00.007Z"), Some("1970-01-01T00:00:00.010Z") }

StatPointSet == { [lat |-> 0, lon |-> 0, timeRaw |-> t] : t \in StatTimeRaws }

InitStats ==
  /\ points \in SeqsUpTo(StatPointSet, MaxStatPoints)
  /\ pc = "scan"
  /\ i = 0
  /\ audit = AuditLocals
  /\ result = Null
  /\ KdeIdle
  /\ VizIdle
  /\ TsIdle
  /\ GpxIdle

SpecStats == InitStats /\ [][Next]_vars

(***************************************************************************)
(* auditSampling on a track whose timestamps include one that is 1001 ms   *)
(* after another: 1.001 s is no binary fraction, so the quotient           *)
(* dtMs / 1000 of the joint pass is a rounded double.                      *)
(***************************************************************************)
JointTimeRaws ==
  { Null, Some("1970-01-01T00:00:01Z"), Some("1970-01-01T00:00:02.001Z"),
    Some("1970-01-01T00:00:02.500Z") }

JointPointSet ==
  { [lat |-> 0, lon |-> c, timeRaw |-> t] : c \in {0, 60}, t \in JointTimeRaws }

InitJoint ==
  /\ points \in SeqsUpTo(JointPointSet, MaxPoints)
  /\ pc = "scan"
  /\ i = 0
  /\ audit = AuditLocals
  /\ result = Null
  /\ KdeIdle
  /\ VizIdle
  /\ TsIdle
  /\ GpxIdle

SpecJoint == InitJoint /\ [][Next]_vars

(***************************************************************************)
(* auditTimestamps.                                                        *)
(***************************************************************************)
MaxTsPoints == 4

\* the locals of auditTimestamps as declared, before the loop runs
TimestampLocals ==
  [ missingTimestampCount |-> 0,
    unparsableTimestampCount |-> 0,
    duplicateTimestampCount |-> 0,
    backwardTimestampCount |-> 0,
    strictlyIncreasingCount |-> 0,
    maxBackwardJumpMs |-> Null,
    backwardTimestampEvents |-> <<>>,
    duplicateTimestampEvents |-> <<>>,
    lastValidTimestampMs |-> Null,
    lastValidTimestampIndex |-> Null,
    lastValidTimestampRaw |-> Null ]

\* a slip: a duplicate is counted as a backward timestamp as well
IsBackward_OrEqual(timestampMs, lastValidTimestampMs) ==
  ~jsGt(timestampMs, lastValidTimestampMs)

\* the else-if branch timestampMs < lastValidTimestampMs, reached when the
\* two are not equal
IsBackward(timestampMs, lastValidTimestampMs) ==
  timestampMs # lastValidTimestampMs /\ jsGt(lastValidTimestampMs, timestampMs)

\* the loop body on the point of (0-based) index k, from the locals l
TimestampStep(l, point, k) ==
  LET timeRaw == point.timeRaw
      timestampMs == DateParse(timeRaw[1])
      compared == l.lastValidTimestampMs # Null
      last == l.lastValidTimestampMs[1]
      duplicate == compared /\ timestampMs = last
      backward == compared /\ IsBackward(timestampMs, last)
      increasing == compared /\ ~duplicate /\ ~backward /\ jsGt(timestampMs, last)
      backwardJump == fSub(last, timestampMs)
  IN IF timeRaw = Null
     THEN [l EXCEPT !.missingTimestampCount = @ + 1]
     ELSE IF isNaN(timestampMs)
     THEN [l EXCEPT !.unparsableTimestampCount = @ + 1]
     ELSE [l EXCEPT
            !.duplicateTimestampCount = IF duplicate THEN @ + 1 ELSE @,
            !.duplicateTimestampEvents =
               IF duplicate
               THEN Append(@, [index |-> k, prevIndex |-> l.lastValidTimestampIndex[1]])
               ELSE @,
            !.backwardTimestampCount = IF backward THEN @ + 1 ELSE @,
            !.maxBackwardJumpMs =
               IF backward /\ (@ = Null \/ jsGt(backwardJump, @[1]))
               THEN Some(backwardJump) ELSE @,
            !.backwardTimestampEvents =
               IF backward
               THEN Append(@, [index |-> k, prevIndex |-> l.lastValidTimestampIndex[1]])
               ELSE @,
            !.strictlyIncreasingCount = IF increasing THEN @ + 1 ELSE @,
            !.lastValidTimestampMs = Some(timestampMs),
            !.lastValidTimestampIndex = Some(k),
            !.lastValidTimestampRaw = timeRaw]

\* the audit metadata object
MetadataOf(l, pts) ==
  [ totalPointsChecked |-> Len(pts),
    missingTimestampCount |-> l.missingTimestampCount,
    unparsableTimestampCount |-> l.unparsableTimestampCount,
    duplicateTimestampCount |-> l.duplicateTimestampCount,
    backwardTimestampCount |-> l.backwardTimestampCount,
    strictlyIncreasingCount |-> l.strictlyIncreasingCount,
    maxBackwardJumpMs |-> l.maxBackwardJumpMs,
    backwardTimestampEvents |-> l.backwardTimestampEvents,
    duplicateTimestampEvents |-> l.duplicateTimestampEvents ]

TsPointSet == { [lat |-> 0, lon |-> 0, timeRaw |-> t] : t \in TimeRaws }

InitTimestamps ==
  /\ points \in SeqsUpTo(TsPointSet, MaxTsPoints)
  /\ pc = "tsLoop"
  /\ i = 0
  /\ audit = <<>>
  /\ result = Null
  /\ tsLocals = Some(TimestampLocals)
  /\ auditMetadata = Null
  /\ KdeIdle
  /\ VizIdle
  /\ GpxIdle

\* one iteration of the loop of auditTimestamps, on points[i] (0-based i)
TimestampIteration ==
  /\ pc = "tsLoop"
  /\ i < Len(points)
  /\ tsLocals' = Some(TimestampStep(tsLocals[1], points[i + 1], i))
  /\ i' = i + 1
  /\ UNCHANGED <<points, pc, audit, result, auditMetadata>>
  /\ UNCHANGED kdeVars
  /\ UNCHANGED vizVars
  /\ UNCHANGED gpxVars

\* the loop is over: auditTimestamps builds and returns the metadata
TimestampReturn ==
  /\ pc = "tsLoop"
  /\ i = Len(points)
  /\ auditMetadata' = Some(MetadataOf(tsLocals[1], points))
  /\ pc' = "tsDone"
  /\ UNCHANGED <<points, i, audit, result, tsLocals>>
  /\ UNCHANGED kdeVars
  /\ UNCHANGED vizVars
  /\ UNCHANGED gpxVars

NextTimestamps == TimestampIteration \/ TimestampReturn

SpecTimestamps == InitTimestamps /\ [][NextTimestamps]_vars

(***************************************************************************)
(* Both audits on the same points, as after parsing a file: first          *)
(* auditTimestamps, then auditSampling.                                    *)
(***************************************************************************)
\* auditSampling is called on the points auditTimestamps has audited
StartSampling ==
  /\ pc = "tsDone"
  /\ pc' = "scan"
  /\ i' = 0
  /\ audit' = AuditLocals
  /\ UNCHANGED <<points, result>>
  /\ UNCHANGED kdeVars
  /\ UNCHANGED vizVars
  /\ UNCHANGED tsVars
  /\ UNCHANGED gpxVars

NextBothAudits ==
  \/ TimestampIteration
  \/ TimestampReturn
  \/ StartSampling
  \/ PresenceScan
  \/ PrimaryIteration
  \/ Statistics
  \/ JointIteration
  \/ Return

SpecBothAudits == InitTimestamps /\ [][NextBothAudits]_vars

(***************************************************************************)
(* parseGPX.  A document is well formed or not, and holds its point        *)
(* elements in document order; an element has a tag, the raw lat and lon   *)
(* attributes (Null when absent) and the text of its time child (Null when *)
(* it has none).  Coordinates are in whole degrees.                        *)
(***************************************************************************)
MaxElements == 3

\* parseFloat of an attribute value
parseFloat(raw) ==
  CASE raw = Null -> NaN
    [] raw = Some("0") -> Fin(0)
    [] raw = Some("60") -> Fin(60)
    [] raw = Some("91") -> Fin(91)
    [] raw = Some("180") -> Fin(180)
    [] raw = Some("-181") -> Fin(-181)
    [] raw = Some("Infinity") -> PosInf
    [] OTHER -> NaN

\* textContent.trim() of a time element
Trim(text) == IF text = "  " THEN "" ELSE text

\* !isFinite(lat) || !isFinite(lon) || lat < -90 || lat > 90 || lon < -180 || lon > 180
OutOfRange(lat, lon) ==
  \/ ~isFinite(lat) \/ ~isFinite(lon)
  \/ jsGt(Fin(-90), lat) \/ jsGt(lat, Fin(90))
  \/ jsGt(Fin(-180), lon) \/ jsGt(lon, Fin(180))

\* parsePointElement(pointElement, index, pointType)
parsePointElement(pointElement, index, pointType) ==
  LET rawData == [pointType |-> pointType, index |-> index, lat |-> pointElement.lat,
                  lon |-> pointElement.lon, time |-> pointElement.time]
      lat == parseFloat(pointElement.lat)
      lon == parseFloat(pointElement.lon)
      timeRaw == IF pointElement.time = Null \/ Trim(pointElement.time[1]) = ""
                 THEN Null ELSE Some(Trim(pointElement.time[1]))
  IN IF isNaN(lat) \/ isNaN(lon)
     THEN [valid |-> FALSE, point |-> Null, rejectionReason |-> Some("Invalid coordinates"),
           rawData |-> Some(rawData)]
     ELSE IF OutOfRange(lat, lon)
     THEN [valid |-> FALSE, point |-> Null,
           rejectionReason |-> Some("Coordinates out of valid range or non-finite"),
           rawData |-> Some(rawData)]
     ELSE [valid |-> TRUE,
           point |-> Some([index |-> index, pointType |-> pointType, lat |-> lat,
                           lon |-> lon, timeRaw |-> timeRaw]),
           rejectionReason |-> Null, rawData |-> Null]

\* the locals of parseGPX as declared; console holds what was logged
GpxLocals ==
  [ points |-> <<>>, globalIndex |-> 0, totalPointsFound |-> 0, pointsDiscarded |-> 0,
    firstRejectionLogged |-> FALSE, console |-> <<>> ]

\* processPoint(pointElement, pointType), from the locals l
processPoint(l, pointElement, pointType) ==
  LET parsed == parsePointElement(pointElement, l.globalIndex, pointType)
  IN IF parsed.valid
     THEN [l EXCEPT !.globalIndex = @ + 1, !.points = Append(@, parsed.point[1])]
     ELSE [l EXCEPT !.globalIndex = @ + 1,
                    !.pointsDiscarded = @ + 1,
                    !.console = IF l.firstRejectionLogged THEN @
                                ELSE Append(@, [rawData |-> parsed.rawData[1],
                                                reason |-> parsed.rejectionReason[1]]),
                    !.firstRejectionLogged = TRUE]

\* xmlDoc.querySelectorAll(tag): the elements of that tag, in document order
querySelectorAll(elements, tag) == SelectSeq(elements, LAMBDA e : e.tag = tag)

\* list.forEach(e => processPoint(e, pointType)), from the locals l
RECURSIVE forEachProcess(_, _, _)
forEachProcess(l, list, pointType) ==
  IF list = <<>> THEN l
  ELSE forEachProcess(processPoint(l, Head(list), pointType), Tail(list), pointType)

\* one extraction block of parseGPX: the elements of a tag are counted, then
\* processed in order
ExtractAll(l, elements, tag) ==
  LET list == querySelectorAll(elements, tag)
  IN forEachProcess([l EXCEPT !.totalPointsFound = @ + Len(list)], list, tag)

\* the object parseGPX returns
ParsedOf(l) ==
  [ outcome |-> "returned",
    points |-> l.points,
    stats |-> [ totalPointsFound |-> l.totalPointsFound,
                pointsDiscarded |-> l.pointsDiscarded,
                remainingPoints |-> Len(l.points) ] ]

\* the documents the model draws from
Tags == { "wpt", "rtept", "trkpt" }

ElementBodies ==
  { [lat |-> Some("0"), lon |-> Some("60"), time |-> Null],
    [lat |-> Some("60"), lon |-> Some("180"), time |-> Some("  ")],
    [lat |-> Some("0"), lon |-> Some("0"), time |-> Some("1970-01-01T00:00:01Z")],
    [lat |-> Some("91"), lon |-> Some("0"), time |-> Null],
    [lat |-> Some("abc"), lon |-> Null, time |-> Null] }

Elements ==
  { [tag |-> t, lat |-> b.lat, lon |-> b.lon, time |-> b.time] :
      t \in Tags, b \in ElementBodies }

InitGPX ==
  /\ AuditIdle
  /\ KdeIdle
  /\ VizIdle
  /\ TsIdle
  /\ pc = "parseXml"
  /\ \/ gpxDoc = Some([wellFormed |-> FALSE, elements |-> <<>>])
     \/ \E els \in SeqsUpTo(Elements, MaxElements) :
          gpxDoc = Some([wellFormed |-> TRUE, elements |-> els])
  /\ gpxLocals = Null
  /\ gpxResult = Null

\* parser.parseFromString and the parsererror test; the locals are declared
ParseDocument ==
  /\ pc = "parseXml"
  /\ IF gpxDoc[1].wellFormed
     THEN /\ gpxLocals' = Some(GpxLocals)
          /\ pc' = "wpt"
          /\ UNCHANGED gpxResult
     ELSE /\ gpxResult' = Some([outcome |-> "threw"])
          /\ pc' = "gpxThrew"
          /\ UNCHANGED gpxLocals
  /\ UNCHANGED gpxDoc
  /\ UNCHANGED auditVars
  /\ UNCHANGED kdeVars
  /\ UNCHANGED vizVars
  /\ UNCHANGED tsVars

\* the <wpt> block
ExtractWaypoints ==
  /\ pc = "wpt"
  /\ gpxLocals' = Some(ExtractAll(gpxLocals[1], gpxDoc[1].elements, "wpt"))
  /\ pc' = "rtept"
  /\ UNCHANGED <<gpxDoc, gpxResult>>
  /\ UNCHANGED auditVars
  /\ UNCHANGED kdeVars
  /\ UNCHANGED vizVars
  /\ UNCHANGED tsVars

\* the <rtept> block
ExtractRoutePoints ==
  /\ pc = "rtept"
  /\ gpxLocals' = Some(ExtractAll(gpxLocals[1], gpxDoc[1].elements, "rtept"))
  /\ pc' = "trkpt"
  /\ UNCHANGED <<gpxDoc, gpxResult>>
  /\ UNCHANGED auditVars
  /\ UNCHANGED kdeVars
  /\ UNCHANGED vizVars
  /\ UNCHANGED tsVars

\* the <trkpt> block
ExtractTrackPoints ==
  /\ pc = "trkpt"
  /\ gpxLocals' = Some(ExtractAll(gpxLocals[1], gpxDoc[1].elements, "trkpt"))
  /\ pc' = "gpxReturn"
  /\ UNCHANGED <<gpxDoc, gpxResult>>
  /\ UNCHANGED auditVars
  /\ UNCHANGED kdeVars
  /\ UNCHANGED vizVars
  /\ UNCHANGED tsVars

\* the return statement of parseGPX
ReturnParsed ==
  /\ pc = "gpxReturn"
  /\ gpxResult' = Some(ParsedOf(gpxLocals[1]))
  /\ pc' = "gpxDone"
  /\ UNCHANGED <<gpxDoc, gpxLocals>>
  /\ UNCHANGED auditVars
  /\ UNCHANGED kdeVars
  /\ UNCHANGED vizVars
  /\ UNCHANGED tsVars

NextGPX ==
  \/ ParseDocument
  \/ ExtractWaypoints
  \/ ExtractRoutePoints
  \/ ExtractTrackPoints
  \/ ReturnParsed

SpecGPX == InitGPX /\ [][NextGPX]_vars

(***************************************************************************)
(* The density estimator.  Every number here is fixed point.               *)
(***************************************************************************)
MaxData == 2

MaxGrid == 4

MaxCurve == 5

DefaultNumPoints == 200

\* Math.log, tabulated at the values the model draws its data from
MathLog(x) ==
  CASE isNaN(x) -> NaN
    [] x = PosInf -> PosInf
    [] x = NegInf -> NaN
    [] x.v < 0 -> NaN
    [] x.v = 0 -> NegInf
    [] x.v = 250 -> Fin(-1386)
    [] x.v = 500 -> Fin(-693)
    [] x.v = 1000 -> Fin(0)
    [] x.v = 1500 -> Fin(405)
    [] x.v = 2000 -> Fin(693)
    [] x.v = 4000 -> Fin(1386)
    [] x.v = 8000 -> Fin(2079)

\* e^(r/1000) for 0 <= r < 1000, by its power series
ExpFrac(r) ==
  LET t2 == RoundDiv(r * r, 2000)
      t3 == RoundDiv(t2 * r, 3000)
      t4 == RoundDiv(t3 * r, 4000)
      t5 == RoundDiv(t4 * r, 5000)
      t6 == RoundDiv(t5 * r, 6000)
  IN 1000 + r + t2 + t3 + t4 + t5 + t6

\* e^(z/1000) for 0 <= z < 7000
ExpPos(z) ==
  RoundDiv(<<1000, 2718, 7389, 20086, 54598, 148413, 403429>>[(z \div 1000) + 1]
             * ExpFrac(z % 1000), 1000)

\* Math.exp
MathExp(x) ==
  CASE isNaN(x) -> NaN
    [] x = PosInf -> PosInf
    [] x = NegInf -> Fin(0)
    [] x.v >= 0 -> Fin(ExpPos(x.v))
    [] x.v <= -7601 -> Fin(0)
    [] x.v <= -7000 -> Fin(1)
    [] OTHER -> Fin(RoundDiv(1000000, ExpPos(-x.v)))

\* n * x for a count n >= 0 and a number x
fTimes(n, x) ==
  CASE isNaN(x) -> NaN
    [] isFinite(x) -> Fin(n * x.v)
    [] OTHER -> IF n = 0 THEN NaN ELSE x

\* array entries that are no numbers: null, and a string holding a decimal
\* numeral (v its value)
JsNull == [k |-> "null", v |-> 0]

NumeralString(v) == [k |-> "str", v |-> v]

IsNumber(d) == d.k \in {"fin", "nan", "inf"}

\* the number an operand of >, isFinite or Math.log is converted to
ToNumber(d) ==
  CASE IsNumber(d) -> d
    [] d.k = "null" -> Fin(0)
    [] d.k = "str" -> Fin(d.v)

\* a slip: infinite values pass the filter
ValidDatum_InfiniteKept(d) == jsGt(ToNumber(d), Fin(0))

\* d > 0 && isFinite(d)
ValidDatum(d) == jsGt(ToNumber(d), Fin(0)) /\ isFinite(ToNumber(d))

RECURSIVE Filter(_)
Filter(s) ==
  IF s = <<>> THEN <<>>
  ELSE (IF ValidDatum(Head(s)) THEN <<Head(s)>> ELSE <<>>) \o Filter(Tail(s))

RECURSIVE MathMin(_)
MathMin(s) ==
  IF Len(s) = 1 THEN s[1]
  ELSE LET m == MathMin(Tail(s))
       IN IF isNaN(s[1]) \/ isNaN(m) THEN NaN ELSE IF jsGt(m, s[1]) THEN s[1] ELSE m

RECURSIVE MathMax(_)
MathMax(s) ==
  IF Len(s) = 1 THEN s[1]
  ELSE LET m == MathMax(Tail(s))
       IN IF isNaN(s[1]) \/ isNaN(m) THEN NaN ELSE IF jsGt(s[1], m) THEN s[1] ELSE m

\* xMinLog + (xMaxLog - xMinLog) * (i / (numPoints - 1))
GridXLog(xMinLog, xMaxLog, k, n) ==
  fAdd(xMinLog, fMul(fSub(xMaxLog, xMinLog), fDiv(Fin(k), Fin(n - 1))))

\* the inner loop: the sum over j of exp(-0.5 * u * u), u = (xLog - validDataLog[j]) / h
RECURSIVE KernelSum(_, _, _, _)
KernelSum(xLog, validDataLog, h, j) ==
  IF j > Len(validDataLog) THEN Fin(0)
  ELSE LET u == fDiv(fSub(xLog, validDataLog[j]), h)
       IN fAdd(MathExp(fMul(fMul(Fin(-500), u), u)),
               KernelSum(xLog, validDataLog, h, j + 1))

\* 1 / (n * h * Math.sqrt(2 * Math.PI))
Normalization(n, h) == fDiv(Fin(1000), fMul(fTimes(n, h), Fin(2507)))

\* computeKDE(data, bandwidth, numPoints), m the number of grid points
computeKDE(d, h, m) ==
  LET validData == Filter(d)
      validDataLog == [j \in 1..Len(validData) |-> MathLog(ToNumber(validData[j]))]
      xMinLog == MathMin(validDataLog)
      xMaxLog == MathMax(validDataLog)
      n == Len(validDataLog)
      normalization == Normalization(n, h)
  IN IF Len(validData) = 0 THEN <<>>
     ELSE [k \in 1..m |->
             LET xLog == GridXLog(xMinLog, xMaxLog, k - 1, m)
             IN [xLog |-> xLog,
                 xLinear |-> MathExp(xLog),
                 y |-> fMul(KernelSum(xLog, validDataLog, h, 1), normalization)]]

\* a slip: a plateau's right edge counts as a peak
IsPeak_PlateauEdge(prev, curr, next) == jsGt(curr.y, prev.y) /\ ~jsGt(next.y, curr.y)

\* curr.y > prev.y && curr.y > next.y
IsPeak(prev, curr, next) == jsGt(curr.y, prev.y) /\ jsGt(curr.y, next.y)

\* the loop of detectPeaks: the interior indices in increasing order, those
\* passing the test kept, and the kept points pushed as {xLog, xLinear, y}
detectPeaks(curve) ==
  IF Len(curve) < 3 THEN <<>>
  ELSE LET interior == [k \in 1..(Len(curve) - 2) |-> k + 1]
           kept == SelectSeq(interior,
                             LAMBDA k : IsPeak(curve[k - 1], curve[k], curve[k + 1]))
       IN [n \in 1..Len(kept) |->
             [xLog |-> curve[kept[n]].xLog, xLinear |-> curve[kept[n]].xLinear,
              y |-> curve[kept[n]].y]]

\* the values the model draws data and bandwidths from
DataVals ==
  { Fin(500), Fin(8000), Fin(0), Fin(-1000), NaN, PosInf, JsNull, NumeralString(2000) }

Bandwidths == { Fin(-693), Fin(0), Fin(500) }

YVals == { Fin(1), Fin(2), Fin(3), NaN }

\* a curve with the given densities, its k-th point at xLog = k
CurveOf(ys) == [k \in 1..Len(ys) |-> [xLog |-> Fin(k), xLinear |-> Fin(k), y |-> ys[k]]]

\* either a call of computeKDE is about to run, or detectPeaks is handed a curve
InitKDE ==
  /\ AuditIdle
  /\ VizIdle
  /\ TsIdle
  /\ GpxIdle
  /\ peaks = <<>>
  /\ \/ /\ pc = "computeKDE"
        /\ data \in SeqsUpTo(DataVals, MaxData)
        /\ bandwidth \in Bandwidths
        /\ numPoints \in {Null} \cup { Some(m) : m \in 0..MaxGrid }
        /\ kdeOutcome = "none"
        /\ kdePoints = <<>>
     \/ /\ pc = "detectPeaks"
        /\ data = <<>> /\ bandwidth = NaN /\ numPoints = Null
        /\ kdeOutcome = "none"
        /\ kdePoints \in { CurveOf(ys) : ys \in SeqsUpTo(YVals, MaxCurve) }

\* the call of computeKDE runs to its return statement: it has no throw
ComputeKDE ==
  /\ pc = "computeKDE"
  /\ kdePoints' = computeKDE(data, bandwidth,
                             IF numPoints = Null THEN DefaultNumPoints ELSE numPoints[1])
  /\ kdeOutcome' = "returned"
  /\ pc' = "detectPeaks"
  /\ UNCHANGED <<data, bandwidth, numPoints, peaks>>
  /\ UNCHANGED auditVars
  /\ UNCHANGED vizVars
  /\ UNCHANGED tsVars
  /\ UNCHANGED gpxVars

DetectPeaks ==
  /\ pc = "detectPeaks"
  /\ peaks' = detectPeaks(kdePoints)
  /\ pc' = "peaksDone"
  /\ UNCHANGED <<data, bandwidth, numPoints, kdeOutcome, kdePoints>>
  /\ UNCHANGED auditVars
  /\ UNCHANGED vizVars
  /\ UNCHANGED tsVars
  /\ UNCHANGED gpxVars

NextKDE == ComputeKDE \/ DetectPeaks

SpecKDE == InitKDE /\ [][NextKDE]_vars

(***************************************************************************)
(* Properties of auditSampling.                                            *)
(***************************************************************************)
Returned == pc = "done" /\ result # Null

PositiveFinite(x) == isFinite(x) /\ x.v > 0

AllPositiveFinite(series) == \A k \in 1..Len(series) : PositiveFinite(series[k])

\* C1: every element of timeDeltasMs, of both distance series and of the
\* primary distanceDeltasM is finite and strictly positive, while the audit
\* runs and in the result it returns.
C1_DeltaSeriesPositiveFinite ==
  /\ AllPositiveFinite(audit.timeDeltasMs)
  /\ AllPositiveFinite(audit.distanceDeltasMGeometryOnly)
  /\ AllPositiveFinite(audit.distanceDeltasMTimeConditioned)
  /\ Returned =>
       /\ AllPositiveFinite(result[1].timeDeltasMs)
       /\ AllPositiveFinite(result[1].distanceDeltasMGeometryOnly)
       /\ AllPositiveFinite(result[1].distanceDeltasMTimeConditioned)
       /\ AllPositiveFinite(result[1].distanceDeltasM)

\* a result with deltas stored, a zero distance rejected and a non-positive
\* time delta rejected
C1_Witness ==
  /\ Returned
  /\ result[1].timeDeltasMs # <<>>
  /\ result[1].distanceDeltasMTimeConditioned # <<>>
  /\ result[1].rejectedDistanceInvalidOrZero > 0
  /\ result[1].rejectedTimestampPairsDeltaLeqZero > 0

\* C2: in the result, hasTimeProgression is true exactly when timeDeltasMs
\* is non-empty.
C2_ProgressionIffDeltas ==
  Returned => (result[1].hasTimeProgression <=> result[1].timeDeltasMs # <<>>)

\* a result with time progression next to a rejected timestamp pair
C2_Witness ==
  /\ Returned
  /\ result[1].hasTimeProgression
  /\ result[1].timeDeltasMs # <<>>
  /\ result[1].rejectedTimestampPairsDeltaLeqZero > 0

\* C3: in the result, distanceDeltasM equals the time-conditioned series when
\* hasTimeProgression is true and the geometry-only series otherwise.
C3_PrimarySeriesChoice ==
  Returned =>
    /\ result[1].hasTimeProgression =>
         result[1].distanceDeltasM = result[1].distanceDeltasMTimeConditioned
    /\ ~result[1].hasTimeProgression =>
         result[1].distanceDeltasM = result[1].distanceDeltasMGeometryOnly

\* a result with time progression whose two distance series differ
C3_Witness ==
  /\ Returned
  /\ result[1].hasTimeProgression
  /\ result[1].distanceDeltasMTimeConditioned # <<>>
  /\ result[1].distanceDeltasMTimeConditioned # result[1].distanceDeltasMGeometryOnly

\* C4: timeDistancePairs is non-empty only with hasTimeProgression, and every
\* stored pair has dtSec > 0 and a finite ddMeters > 0.
C4_JointPairsSound ==
  /\ audit.timeDistancePairs # <<>> => audit.hasTimeProgression
  /\ Returned =>
       /\ result[1].timeDistancePairs # <<>> => result[1].hasTimeProgression
       /\ \A k \in 1..Len(result[1].timeDistancePairs) :
            /\ PositiveFinite(result[1].timeDistancePairs[k].dtSec)
            /\ PositiveFinite(result[1].timeDistancePairs[k].ddMeters)

\* a result with a stored pair next to a pair refused for dt <= 0
C4_Witness ==
  /\ Returned
  /\ result[1].timeDistancePairs # <<>>
  /\ result[1].jointRejectedNonPositiveDt > 0

\* the consecutive pairs of points that both carry a valid timestamp
AdjacentTimestampedPairs ==
  { k \in 1..(Len(points) - 1) :
      hasValidTimestamp(points[k]) /\ hasValidTimestamp(points[k + 1]) }

\* C5: the joint pass considers a pair only when the current point and the
\* point immediately before it both carry a valid timestamp, so it considers
\* no more pairs than there are such consecutive pairs and stores no more.
C5_JointPairsAreAdjacent ==
  Returned =>
    /\ result[1].jointPairsWithBothTimestamps <= Cardinality(AdjacentTimestampedPairs)
    /\ Len(result[1].timeDistancePairs) <= Cardinality(AdjacentTimestampedPairs)

(***************************************************************************)
(* The visualization entry point and the two slider handlers.              *)
(***************************************************************************)
\* a JavaScript truthiness test on an optional number
Truthy(o) == o # Null /\ ~isNaN(o[1]) /\ o[1] # Fin(0)

RECURSIVE SumV(_)
SumV(s) == IF s = <<>> THEN 0 ELSE Head(s).v + SumV(Tail(s))

\* the integer square root
Isqrt(x) == CHOOSE r \in 0..x : r * r <= x /\ (r + 1) * (r + 1) > x

\* d3.deviation: the sample standard deviation, undefined (Null) for fewer
\* than two values
deviation(values) ==
  IF Len(values) < 2 THEN Null
  ELSE LET mean == RoundDiv(SumV(values), Len(values))
           squares == [k \in 1..Len(values) |-> Fin((values[k].v - mean) * (values[k].v - mean))]
       IN Some(Fin(Isqrt(RoundDiv(SumV(squares), Len(values) - 1))))

\* Math.pow(n, -0.2) for a count n
PowMinusFifth(n) ==
  IF n = 0 THEN PosInf
  ELSE Fin(<<1000, 871, 803, 758, 725, 699>>[n])

\* d3.deviation(log) || 1
StdDevLog(log) == IF Truthy(deviation(log)) THEN deviation(log)[1] ELSE Fin(1000)

\* option ? Math.log(option) : (1.06 * stdDevLog * Math.pow(n, -0.2))
BandwidthLog(option, log) ==
  IF Truthy(option) THEN MathLog(option[1])
  ELSE fMul(fMul(Fin(1060), StdDevLog(log)), PowMinusFifth(Len(log)))

\* series.filter(d => d > 0 && isFinite(d)).map(d => Math.log(d))
LogOfValid(series) ==
  [k \in 1..Len(Filter(series)) |-> MathLog(ToNumber(Filter(series)[k]))]

\* the samples and bandwidth options the model draws from
TimeDeltasMs == { Fin(500), Fin(4000) }

DistanceDeltasM == { Fin(8000) }

TimeBandwidthOptions == { Null, Some(Fin(500)), Some(Fin(2000)) }

DistanceBandwidthOptions == { Null, Some(Fin(1000)) }

TimeSliderValues == { Fin(-357), Fin(500) }

DistanceSliderValues == { Fin(500) }

InitViz ==
  /\ AuditIdle
  /\ KdeIdle
  /\ TsIdle
  /\ GpxIdle
  /\ pc = "visualize"
  /\ samplingData \in [ timeDeltasMs : SeqsUpTo(TimeDeltasMs, MaxData),
                        distanceDeltasM : SeqsUpTo(DistanceDeltasM, MaxData) ]
  /\ options \in [ timeBandwidth : TimeBandwidthOptions,
                   distanceBandwidth : DistanceBandwidthOptions ]
  /\ window = NoWindow
  /\ plots = NoPlots

\* visualizeSamplingData(samplingData, options)
VisualizeSamplingData ==
  /\ pc = "visualize"
  /\ LET timeDeltasSec == [k \in 1..Len(samplingData.timeDeltasMs) |->
                             fDiv(samplingData.timeDeltasMs[k], Fin(1000))]
         distanceDeltasM == samplingData.distanceDeltasM
         timeBandwidthLog == BandwidthLog(options.timeBandwidth, LogOfValid(timeDeltasSec))
         distanceBandwidthLog ==
           BandwidthLog(options.distanceBandwidth, LogOfValid(distanceDeltasM))
         timeKDE == computeKDE(timeDeltasSec, timeBandwidthLog, DefaultNumPoints)
         distanceKDE == computeKDE(distanceDeltasM, distanceBandwidthLog, DefaultNumPoints)
     IN /\ window' = [ kdeTimeDeltasSec |-> Some(timeDeltasSec),
                       kdeDistanceDeltasM |-> Some(distanceDeltasM),
                       kdeTimeBandwidthLog |-> Some(timeBandwidthLog),
                       kdeDistanceBandwidthLog |-> Some(distanceBandwidthLog) ]
        /\ plots' = [ timeKDE |-> timeKDE, timePeaks |-> detectPeaks(timeKDE),
                      distanceKDE |-> distanceKDE,
                      distancePeaks |-> detectPeaks(distanceKDE) ]
  /\ pc' = "shown"
  /\ UNCHANGED <<samplingData, options>>
  /\ UNCHANGED auditVars
  /\ UNCHANGED kdeVars
  /\ UNCHANGED tsVars
  /\ UNCHANGED gpxVars

\* a slip: only the absent dataset makes the handler return early
NoStoredData_EmptyIsData(dataset) == dataset = Null

\* !dataset || dataset.length === 0, on a global of window
NoStoredData(dataset) == dataset = Null \/ dataset = Some(<<>>)

\* updateTimeKDE(bandwidthLog), the time slider's handler; a global function,
\* which can be called before and after visualizeSamplingData
UpdateTimeKDE(bandwidthLog) ==
  /\ pc \in {"visualize", "shown"}
  /\ IF NoStoredData(window.kdeTimeDeltasSec)
     THEN UNCHANGED <<window, plots>>
     ELSE LET timeKDE == computeKDE(window.kdeTimeDeltasSec[1], bandwidthLog, DefaultNumPoints)
          IN /\ window' = [window EXCEPT !.kdeTimeBandwidthLog = Some(bandwidthLog)]
             /\ plots' = [plots EXCEPT !.timeKDE = timeKDE,
                                       !.timePeaks = detectPeaks(timeKDE)]
  /\ UNCHANGED <<pc, samplingData, options>>
  /\ UNCHANGED auditVars
  /\ UNCHANGED kdeVars
  /\ UNCHANGED tsVars
  /\ UNCHANGED gpxVars

\* updateDistanceKDE(bandwidthLog), the distance slider's handler
UpdateDistanceKDE(bandwidthLog) ==
  /\ pc \in {"visualize", "shown"}
  /\ IF NoStoredData(window.kdeDistanceDeltasM)
     THEN UNCHANGED <<window, plots>>
     ELSE LET distanceKDE ==
                computeKDE(window.kdeDistanceDeltasM[1], bandwidthLog, DefaultNumPoints)
          IN /\ window' = [window EXCEPT !.kdeDistanceBandwidthLog = Some(bandwidthLog)]
             /\ plots' = [plots EXCEPT !.distanceKDE = distanceKDE,
                                       !.distancePeaks = detectPeaks(distanceKDE)]
  /\ UNCHANGED <<pc, samplingData, options>>
  /\ UNCHANGED auditVars
  /\ UNCHANGED kdeVars
  /\ UNCHANGED tsVars
  /\ UNCHANGED gpxVars

NextViz ==
  \/ VisualizeSamplingData
  \/ \E b \in TimeSliderValues : UpdateTimeKDE(b)
  \/ \E b \in DistanceSliderValues : UpdateDistanceKDE(b)

SpecViz == InitViz /\ [][NextViz]_vars

(***************************************************************************)
(* The sliders over several visualizations: visualizeSamplingData is       *)
(* called again with other series (another file was loaded), the handlers  *)
(* run before, between and after the calls.  No bandwidth option is given. *)
(***************************************************************************)
MaxSeries == 1

SliderSamplingData ==
  [ timeDeltasMs : { <<>>, <<Fin(500)>>, <<Fin(4000)>> },
    distanceDeltasM : SeqsUpTo({Fin(8000)}, MaxSeries) ]

InitSliders ==
  /\ AuditIdle
  /\ KdeIdle
  /\ TsIdle
  /\ GpxIdle
  /\ pc = "visualize"
  /\ samplingData \in SliderSamplingData
  /\ options = [timeBandwidth |-> Null, distanceBandwidth |-> Null]
  /\ window = NoWindow
  /\ plots = NoPlots

\* the caller has new series to show
NewSamplingData(series) ==
  /\ pc = "shown"
  /\ samplingData' = series
  /\ pc' = "visualize"
  /\ UNCHANGED <<options, window, plots>>
  /\ UNCHANGED auditVars
  /\ UNCHANGED kdeVars
  /\ UNCHANGED tsVars
  /\ UNCHANGED gpxVars

NextSliders ==
  \/ VisualizeSamplingData
  \/ \E b \in TimeSliderValues : UpdateTimeKDE(b)
  \/ \E b \in DistanceSliderValues : UpdateDistanceKDE(b)
  \/ \E series \in SliderSamplingData : NewSamplingData(series)

SpecSliders == InitSliders /\ [][NextSliders]_vars

(***************************************************************************)
(* A page session, as in the usage example of the visualization module:    *)
(* a track is audited, the series of the result are visualized, the        *)
(* bandwidth sliders are moved, and then the same or another track is      *)
(* audited, with the globals of the last visualization still in window.    *)
(* The receiver is at rest, so the distance series of every result is      *)
(* empty and the session exercises the time-delta plot.                    *)
(* result keeps the value returned for a track until the next call on a    *)
(* different track starts.                                                 *)
(***************************************************************************)
MaxSessionPoints == 2

SessionPointSet ==
  { [lat |-> 0, lon |-> 0, timeRaw |-> Some("1970-01-01T00:00:01Z")],
    [lat |-> 0, lon |-> 0, timeRaw |-> Some("1970-01-01T00:00:02.500Z")],
    [lat |-> 0, lon |-> 0, timeRaw |-> Null] }

SessionTracks == SeqsUpTo(SessionPointSet, MaxSessionPoints)

InitSession ==
  /\ points \in SessionTracks
  /\ pc = "scan"
  /\ i = 0
  /\ audit = AuditLocals
  /\ result = Null
  /\ KdeIdle
  /\ VizIdle
  /\ TsIdle
  /\ GpxIdle

\* the caller hands the series of the returned result to visualizeSamplingData
ShowResult ==
  /\ pc = "done"
  /\ samplingData' = [ timeDeltasMs |-> result[1].timeDeltasMs,
                       distanceDeltasM |->
                         [k \in 1..Len(result[1].distanceDeltasM) |->
                            asFixed(result[1].distanceDeltasM[k])] ]
  /\ pc' = "visualize"
  /\ UNCHANGED <<options, window, plots>>
  /\ UNCHANGED auditVars
  /\ UNCHANGED kdeVars
  /\ UNCHANGED tsVars
  /\ UNCHANGED gpxVars

\* auditSampling is called again, on the same track or on another one
AuditAgain(track) ==
  /\ pc = "shown"
  /\ points' = track
  /\ pc' = "scan"
  /\ i' = 0
  /\ audit' = AuditLocals
  /\ result' = IF track = points THEN result ELSE Null
  /\ UNCHANGED kdeVars
  /\ UNCHANGED vizVars
  /\ UNCHANGED tsVars
  /\ UNCHANGED gpxVars

NextSession ==
  \/ PresenceScan
  \/ PrimaryIteration
  \/ Statistics
  \/ JointIteration
  \/ Return
  \/ ShowResult
  \/ VisualizeSamplingData
  \/ \E b \in TimeSliderValues : UpdateTimeKDE(b)
  \/ \E b \in DistanceSliderValues : UpdateDistanceKDE(b)
  \/ \E track \in SessionTracks : AuditAgain(track)

SpecSession == InitSession /\ [][NextSession]_vars

(***************************************************************************)
(* Properties of computeKDE and detectPeaks.                               *)
(***************************************************************************)
\* a call of computeKDE has ended
KdeCalled == kdeOutcome # "none"

\* the grid resolution of the call
GridSize == IF numPoints = Null THEN DefaultNumPoints ELSE numPoints[1]

\* the indices of the data that are > 0 and finite
ValidIndices ==
  { k \in 1..Len(data) : jsGt(ToNumber(data[k]), Fin(0)) /\ ToNumber(data[k]).k = "fin" }

\* the log-space values of the valid data
ValidLogs == { MathLog(ToNumber(data[k])) : k \in ValidIndices }

MinLog == CHOOSE x \in ValidLogs : \A z \in ValidLogs : x.v <= z.v

MaxLog == CHOOSE x \in ValidLogs : \A z \in ValidLogs : x.v >= z.v

\* C6: a call of computeKDE with a bandwidth h <= 0 ends in an explicit
\* failure and returns no curve.
C6_NonPositiveBandwidthFails ==
  (KdeCalled /\ jsLeq(bandwidth, Fin(0))) => (kdeOutcome = "threw" /\ kdePoints = <<>>)

\* the k-th grid value lies within rounding (two units of the last place) of
\* the exact interpolation MinLog + (MaxLog - MinLog) * (k - 1) / (m - 1)
OnEvenGrid(k, m) ==
  /\ isFinite(kdePoints[k].xLog)
  /\ Abs((m - 1) * (kdePoints[k].xLog.v - MinLog.v) - (MaxLog.v - MinLog.v) * (k - 1))
       <= 2 * (m - 1)

\* C7: for data with a valid value the curve has exactly m points, whose xLog
\* values are non-decreasing and evenly spaced, the first min(ln(data)) and the
\* last max(ln(data)); for single-valued data every xLog is that one value.
C7_GridSpansData ==
  (KdeCalled /\ ValidIndices # {}) =>
    /\ Len(kdePoints) = GridSize
    /\ \A k \in 1..(Len(kdePoints) - 1) : jsLeq(kdePoints[k].xLog, kdePoints[k + 1].xLog)
    /\ \A k \in 1..Len(kdePoints) : OnEvenGrid(k, Len(kdePoints))
    /\ Len(kdePoints) >= 1 =>
         /\ kdePoints[1].xLog = MinLog
         /\ kdePoints[Len(kdePoints)].xLog = MaxLog
    /\ MinLog = MaxLog => \A k \in 1..Len(kdePoints) : kdePoints[k].xLog = MinLog

\* C7, with at least two grid points asked for: the same grid properties
C7_GridWhenTwoOrMore ==
  (KdeCalled /\ ValidIndices # {} /\ GridSize # 1) =>
    /\ Len(kdePoints) = GridSize
    /\ \A k \in 1..(Len(kdePoints) - 1) : jsLeq(kdePoints[k].xLog, kdePoints[k + 1].xLog)
    /\ \A k \in 1..Len(kdePoints) : OnEvenGrid(k, Len(kdePoints))
    /\ Len(kdePoints) >= 1 =>
         /\ kdePoints[1].xLog = MinLog
         /\ kdePoints[Len(kdePoints)].xLog = MaxLog
    /\ MinLog = MaxLog => \A k \in 1..Len(kdePoints) : kdePoints[k].xLog = MinLog

\* a density that is a number >= 0
NonNegative(y) == ~isNaN(y) /\ ~jsGt(Fin(0), y)

\* every density of a curve is >= 0
DensitiesNonNegative(curve) == \A k \in 1..Len(curve) : NonNegative(curve[k].y)

\* visualizeSamplingData has rendered its two curves
Shown == pc = "shown"

\* C8: every element of every density curve produced for rendering, whether
\* the bandwidth is the default or the caller's option, has a density y >= 0.
C8_RenderedDensitiesNonNegative ==
  Shown => (DensitiesNonNegative(plots.timeKDE) /\ DensitiesNonNegative(plots.distanceKDE))

\* C8, for the default bandwidths only: the curves visualizeSamplingData first
\* renders without bandwidth options have densities >= 0
C8_DefaultBandwidthNonNegative ==
  (/\ Shown
   /\ window.kdeTimeBandwidthLog = Some(BandwidthLog(Null, LogOfValid(window.kdeTimeDeltasSec[1])))
   /\ window.kdeDistanceBandwidthLog =
        Some(BandwidthLog(Null, LogOfValid(window.kdeDistanceDeltasM[1]))))
    => (DensitiesNonNegative(plots.timeKDE) /\ DensitiesNonNegative(plots.distanceKDE))

\* C11: a series with an entry that is no number is rejected by computeKDE
\* with an explicit failure, the entry neither filtered out nor converted.
C11_NonNumericRejected ==
  (KdeCalled /\ \E k \in 1..Len(data) : ~IsNumber(data[k])) => kdeOutcome = "threw"

\* C11, what the code does instead: a numeral string is converted and kept
\* as a datum of the curve, and null is dropped by the filter
C11_NumeralStringKept ==
  (KdeCalled /\ data = <<NumeralString(2000)>> /\ numPoints = Some(2)) =>
    (Len(kdePoints) = 2 /\ kdePoints[1].xLog = Fin(693))

\* the interior indices whose density exceeds both neighbours'
PeakIndices ==
  { k \in 2..(Len(kdePoints) - 1) :
      /\ jsGt(kdePoints[k].y, kdePoints[k - 1].y)
      /\ jsGt(kdePoints[k].y, kdePoints[k + 1].y) }

\* the number of peak indices up to k
PeakRank(k) == Cardinality({ j \in PeakIndices : j <= k })

\* the n-th peak index in increasing order
NthPeakIndex(n) == CHOOSE k \in PeakIndices : PeakRank(k) = n

PeaksDone == pc = "peaksDone"

Densities == [k \in 1..Len(kdePoints) |-> kdePoints[k].y]

\* C9: detectPeaks returns exactly the curve elements at the interior indices
\* i with y_i > y_(i-1) and y_i > y_(i+1), in index order: never the first or
\* the last element, none on a plateau, none for fewer than 3 points, and for
\* y = [1,3,1,2,1] the elements at (0-based) indices 1 and 3.
C9_PeaksAreStrictInteriorMaxima ==
  PeaksDone =>
    /\ peaks = [n \in 1..Cardinality(PeakIndices) |-> kdePoints[NthPeakIndex(n)]]
    /\ Len(kdePoints) < 3 => peaks = <<>>
    /\ Densities = <<Fin(1), Fin(3), Fin(1), Fin(2), Fin(1)>> =>
         peaks = <<kdePoints[2], kdePoints[4]>>
    /\ \A n \in 1..Len(peaks) :
         peaks[n] # kdePoints[1] /\ peaks[n] # kdePoints[Len(kdePoints)]

\* detectPeaks has run on the curve with densities [1,3,1,2,1]
C9_Witness ==
  /\ PeaksDone
  /\ Densities = <<Fin(1), Fin(3), Fin(1), Fin(2), Fin(1)>>
  /\ Len(peaks) = 2

\* C10: when no value of the series is > 0 and finite, computeKDE returns the
\* empty curve without raising, and detectPeaks of it is the empty list.
C10_NoValidDataEmptyCurve ==
  (KdeCalled /\ ValidIndices = {}) =>
    /\ kdeOutcome = "returned"
    /\ kdePoints = <<>>
    /\ PeaksDone => peaks = <<>>

\* both calls have run on a series of an infinite and a non-positive value
C10_Witness ==
  /\ PeaksDone
  /\ KdeCalled
  /\ Len(data) = 2
  /\ data[1] = PosInf
  /\ data[2] = Fin(0)
  /\ numPoints = Some(3)
  /\ peaks = <<>>

(***************************************************************************)
(* Properties of the default bandwidth of visualizeSamplingData.           *)
(***************************************************************************)
\* the step taken is the call of visualizeSamplingData
VisualizeStep == pc = "visualize" /\ pc' = "shown"

\* the log-space values of the valid time deltas (in seconds) and distances
TimeLogs ==
  LogOfValid([k \in 1..Len(samplingData.timeDeltasMs) |->
                fDiv(samplingData.timeDeltasMs[k], Fin(1000))])

DistanceLogs == LogOfValid(samplingData.distanceDeltasM)

\* C12: without a bandwidth option, the bandwidth visualizeSamplingData uses
\* for a series is finite and strictly positive, whatever the series: never
\* 0, NaN or Infinity.
C12_DefaultBandwidthPositiveFinite ==
  [][VisualizeStep =>
       /\ options.timeBandwidth = Null => PositiveFinite(window'.kdeTimeBandwidthLog[1])
       /\ options.distanceBandwidth = Null =>
            PositiveFinite(window'.kdeDistanceBandwidthLog[1])]_vars

\* C12, for a series with at least one valid value: the default bandwidth is
\* finite and positive, 1.06 for one value (the fallback deviation 1) and
\* 1.06 * 2^(-1/5) for two equal values
C12_DefaultBandwidthWithData ==
  [][VisualizeStep =>
       /\ (options.timeBandwidth = Null /\ Len(TimeLogs) >= 1) =>
            /\ PositiveFinite(window'.kdeTimeBandwidthLog[1])
            /\ Len(TimeLogs) = 1 => window'.kdeTimeBandwidthLog[1] = Fin(1060)
            /\ (Len(TimeLogs) = 2 /\ TimeLogs[1] = TimeLogs[2]) =>
                 window'.kdeTimeBandwidthLog[1] = Fin(923)
       /\ (options.distanceBandwidth = Null /\ Len(DistanceLogs) >= 1) =>
            /\ PositiveFinite(window'.kdeDistanceBandwidthLog[1])
            /\ Len(DistanceLogs) = 1 => window'.kdeDistanceBandwidthLog[1] = Fin(1060)]_vars

\* C12, the empty series: the default bandwidth is Infinity
C12_EmptySeriesInfinite ==
  [][(VisualizeStep /\ options.timeBandwidth = Null /\ Len(TimeLogs) = 0) =>
       window'.kdeTimeBandwidthLog[1] = PosInf]_vars

(***************************************************************************)
(* Properties of the statistics of auditSampling.                          *)
(***************************************************************************)
\* how many elements of a series are below x, and how many are at most x
CountBelow(series, x) == Cardinality({ j \in 1..Len(series) : series[j].v < x.v })

CountAtMost(series, x) == Cardinality({ j \in 1..Len(series) : series[j].v <= x.v })

\* the k-th smallest element of a series of finite numbers, 1 <= k <= Len
KthSmallest(series, k) ==
  CHOOSE x \in { series[j] : j \in 1..Len(series) } :
    CountBelow(series, x) < k /\ k <= CountAtMost(series, x)

\* the median of a non-empty series, in units of 1/1000
MedianOf(series) ==
  LET n == Len(series)
  IN IF n % 2 = 1 THEN Fin(1000 * KthSmallest(series, (n + 1) \div 2).v)
     ELSE Fin(500 * (KthSmallest(series, n \div 2).v + KthSmallest(series, (n \div 2) + 1).v))

\* the positive differences of successive valid timestamps of pts, in input
\* order; last is the latest valid timestamp so far, Null when none
RECURSIVE PositiveDeltas(_, _)
PositiveDeltas(pts, last) ==
  IF pts = <<>> THEN <<>>
  ELSE IF ~hasValidTimestamp(Head(pts)) THEN PositiveDeltas(Tail(pts), last)
  ELSE LET t == DateParse(Head(pts).timeRaw[1])
       IN (IF last # Null /\ t.v > last[1].v THEN <<Fin(t.v - last[1].v)>> ELSE <<>>)
            \o PositiveDeltas(Tail(pts), Some(t))

\* C13: medianDeltaMs is the median of timeDeltasMs (the middle element of
\* the sorted series for an odd length, the average of the two central ones
\* for an even length), minDeltaMs and maxDeltaMs are its smallest and largest
\* elements, all three are null exactly when the series is empty, and the
\* returned timeDeltasMs keeps the input order.
C13_MinMaxMedian ==
  Returned =>
    LET D == result[1].timeDeltasMs
    IN /\ D = PositiveDeltas(points, Null)
       /\ D = <<>> =>
            /\ result[1].minDeltaMs = Null
            /\ result[1].maxDeltaMs = Null
            /\ result[1].medianDeltaMs = Null
       /\ D # <<>> =>
            /\ result[1].minDeltaMs = Some(KthSmallest(D, 1))
            /\ result[1].maxDeltaMs = Some(KthSmallest(D, Len(D)))
            /\ result[1].medianDeltaMs = Some(MedianOf(D))
       /\ D = <<Fin(5), Fin(1), Fin(3)>> => result[1].medianDeltaMs = Some(Fin(3000))
       /\ D = <<Fin(1), Fin(2), Fin(3), Fin(4)>> => result[1].medianDeltaMs = Some(Fin(2500))

\* the deltas [5,1,3] are returned unsorted with median 3
C13_Witness ==
  /\ Returned
  /\ result[1].timeDeltasMs = <<Fin(5), Fin(1), Fin(3)>>
  /\ result[1].medianDeltaMs = Some(Fin(3000))
  /\ result[1].minDeltaMs = Some(Fin(1))
  /\ result[1].maxDeltaMs = Some(Fin(5))

\* the deltas [1,2,3,4] have median 2.5
C13_EvenLengthReached ==
  /\ Returned
  /\ result[1].timeDeltasMs = <<Fin(1), Fin(2), Fin(3), Fin(4)>>
  /\ result[1].medianDeltaMs = Some(Fin(2500))

(***************************************************************************)
(* Properties of auditSampling on degenerate input.                        *)
(***************************************************************************)
\* every counter the result carries is 0
AllCountersZero(r) ==
  /\ r.totalDeltaCount = 0
  /\ r.rejectedTimestampPairsDeltaLeqZero = 0
  /\ r.consecutivePointPairsConsidered = 0
  /\ r.rejectedDistanceInvalidOrZero = 0
  /\ r.jointPairsWithBothTimestamps = 0
  /\ r.jointRejectedMissingTimestamp = 0
  /\ r.jointRejectedNonPositiveDt = 0
  /\ r.jointRejectedInvalidOrZeroDistance = 0

\* every series the result carries is empty
AllSeriesEmpty(r) ==
  /\ r.timeDeltasMs = <<>>
  /\ r.distanceDeltasMGeometryOnly = <<>>
  /\ r.distanceDeltasMTimeConditioned = <<>>
  /\ r.distanceDeltasM = <<>>
  /\ r.timeDistancePairs = <<>>
  /\ r.nonPositiveTimeDeltaEvents = <<>>

\* C14: on the empty point sequence the result has every counter 0, both
\* flags false and every series empty; on a single point it has no deltas
\* either (every series is empty and every counter 0).
C14_EmptyAndSinglePoint ==
  Returned =>
    /\ points = <<>> =>
         /\ AllCountersZero(result[1])
         /\ AllSeriesEmpty(result[1])
         /\ ~result[1].hasValidTimestamps
         /\ ~result[1].hasTimeProgression
    /\ Len(points) = 1 =>
         /\ AllCountersZero(result[1])
         /\ AllSeriesEmpty(result[1])
         /\ ~result[1].hasTimeProgression

\* the call on a single timestamped point has returned
C14_Witness ==
  /\ Returned
  /\ Len(points) = 1
  /\ result[1].hasValidTimestamps
  /\ result[1].totalDeltaCount = 0
  /\ result[1].minDeltaMs = Null

\* the call on the empty sequence has returned
C14_EmptyReached == Returned /\ points = <<>> /\ result[1].totalDeltaCount = 0

(***************************************************************************)
(* Properties of the time-delta classification of auditSampling.           *)
(***************************************************************************)
\* the parsed timestamps of the points that carry a valid one, in input order
ValidTimestamps ==
  LET timestamped == SelectSeq(points, hasValidTimestamp)
  IN [k \in 1..Len(timestamped) |-> DateParse(timestamped[k].timeRaw[1]).v]

\* the pairs of consecutive timestamped points, by the sign of their delta
ZeroDeltaPairs ==
  { k \in 1..(Len(ValidTimestamps) - 1) : ValidTimestamps[k + 1] = ValidTimestamps[k] }

BackwardPairs ==
  { k \in 1..(Len(ValidTimestamps) - 1) : ValidTimestamps[k + 1] < ValidTimestamps[k] }

ForwardPairs ==
  { k \in 1..(Len(ValidTimestamps) - 1) : ValidTimestamps[k + 1] > ValidTimestamps[k] }

\* the primary loop is over
PrimaryDone == pc \in {"joint", "done"}

\* the recorded events whose delta is 0
ZeroDeltaEvents ==
  { k \in 1..Len(audit.nonPositiveTimeDeltaEvents) :
      audit.nonPositiveTimeDeltaEvents[k].delta = Fin(0) }

\* C15: each pair of consecutive timestamped points with equal timestamps adds
\* nothing to timeDeltasMs and raises rejectedTimestampPairsDeltaLeqZero by
\* exactly one: once the primary loop is over, and all through the joint pass
\* and in the result, the counter is the number of pairs with delta <= 0, one
\* event with delta 0 is recorded per equal pair, and timeDeltasMs has one
\* element per pair with delta > 0, none of them 0.
C15_ZeroDeltaRejectedOnce ==
  /\ PrimaryDone =>
       /\ audit.rejectedTimestampPairsDeltaLeqZero
            = Cardinality(ZeroDeltaPairs) + Cardinality(BackwardPairs)
       /\ Cardinality(ZeroDeltaEvents) = Cardinality(ZeroDeltaPairs)
       /\ Len(audit.timeDeltasMs) = Cardinality(ForwardPairs)
       /\ \A k \in 1..Len(audit.timeDeltasMs) : audit.timeDeltasMs[k] # Fin(0)
  /\ Returned =>
       /\ result[1].rejectedTimestampPairsDeltaLeqZero
            = Cardinality(ZeroDeltaPairs) + Cardinality(BackwardPairs)
       /\ Len(result[1].timeDeltasMs) = Cardinality(ForwardPairs)

\* a result for a track with one equal pair and one forward pair, the joint
\* pass having refused the equal pair too
C15_Witness ==
  /\ Returned
  /\ Cardinality(ZeroDeltaPairs) = 1
  /\ Cardinality(ForwardPairs) = 1
  /\ result[1].rejectedTimestampPairsDeltaLeqZero = 1
  /\ result[1].jointRejectedNonPositiveDt = 1
  /\ Len(result[1].timeDeltasMs) = 1

(***************************************************************************)
(* Frame and termination properties of auditSampling.                      *)
(***************************************************************************)
\* C16: auditSampling never mutates or reorders its input: no step changes
\* the points array, and every point keeps exactly its lat, lon and timeRaw
\* (no parsed millisecond value is stored on a point).
C16_InputNeverMutated ==
  /\ [][points' = points]_vars
  /\ [](\A k \in 1..Len(points) : DOMAIN points[k] = {"lat", "lon", "timeRaw"})

\* a call on three points with parseable and unparseable timestamps has
\* returned, both loops having run over them
C16_Witness ==
  /\ Returned
  /\ Len(points) = 3
  /\ points[1].timeRaw = Some("1970-01-01T00:00:01Z")
  /\ points[2].timeRaw = Some("not-a-date")
  /\ points[3].timeRaw = Some("1970-01-01T00:00:02.500Z")
  /\ result[1].hasTimeProgression

\* the fields of a complete result
ResultFields ==
  { "timeDeltasMs", "totalDeltaCount", "minDeltaMs", "maxDeltaMs", "medianDeltaMs",
    "distanceDeltasM", "distanceDeltasMGeometryOnly", "distanceDeltasMTimeConditioned",
    "timeDistancePairs", "hasTimeProgression", "hasValidTimestamps",
    "rejectedTimestampPairsDeltaLeqZero", "consecutivePointPairsConsidered",
    "rejectedDistanceInvalidOrZero", "jointPairsWithBothTimestamps",
    "jointRejectedMissingTimestamp", "jointRejectedNonPositiveDt",
    "jointRejectedInvalidOrZeroDistance", "nonPositiveTimeDeltaEvents" }

\* a sequence (an array)
IsSeries(x) == DOMAIN x = 1..Len(x)

\* a result with all series, both flags and all counters
ResultComplete(r) ==
  /\ DOMAIN r = ResultFields
  /\ r.hasTimeProgression \in BOOLEAN /\ r.hasValidTimestamps \in BOOLEAN
  /\ IsSeries(r.timeDeltasMs) /\ IsSeries(r.distanceDeltasM)
  /\ IsSeries(r.distanceDeltasMGeometryOnly) /\ IsSeries(r.distanceDeltasMTimeConditioned)
  /\ IsSeries(r.timeDistancePairs) /\ IsSeries(r.nonPositiveTimeDeltaEvents)
  /\ r.totalDeltaCount \in Nat
  /\ r.rejectedTimestampPairsDeltaLeqZero \in Nat
  /\ r.consecutivePointPairsConsidered \in Nat
  /\ r.rejectedDistanceInvalidOrZero \in Nat
  /\ r.jointPairsWithBothTimestamps \in Nat
  /\ r.jointRejectedMissingTimestamp \in Nat
  /\ r.jointRejectedNonPositiveDt \in Nat
  /\ r.jointRejectedInvalidOrZeroDistance \in Nat

\* C17: whatever mix of missing, unparseable, duplicate or backward
\* timestamps and zero distances the points hold, auditSampling eventually
\* returns, and what it returns is a result with all series, both flags and
\* all counters.
C17_AlwaysReturnsComplete ==
  /\ <>Returned
  /\ [](Returned => ResultComplete(result[1]))

\* a result for a track with a missing and an unparseable timestamp, a
\* duplicate or backward one and a zero distance
C17_Witness ==
  /\ Returned
  /\ \E k \in 1..Len(points) : points[k].timeRaw = Null
  /\ \E k \in 1..Len(points) : points[k].timeRaw = Some("not-a-date")
  /\ result[1].rejectedDistanceInvalidOrZero > 0
  /\ ResultComplete(result[1])

\* a result for a track with a duplicate or backward timestamp
C17_NonPositiveDeltaReached ==
  /\ Returned
  /\ result[1].rejectedTimestampPairsDeltaLeqZero > 0
  /\ ResultComplete(result[1])

(***************************************************************************)
(* Properties of auditTimestamps.                                          *)
(***************************************************************************)
TsReturned == pc = "tsDone" /\ auditMetadata # Null

\* the indices of the points without timestamp, with an unparseable one and
\* with a parseable one
MissingPoints == { k \in 1..Len(points) : points[k].timeRaw = Null }

UnparsablePoints ==
  { k \in 1..Len(points) : points[k].timeRaw # Null /\ ~hasValidTimestamp(points[k]) }

ParseablePoints == { k \in 1..Len(points) : hasValidTimestamp(points[k]) }

\* C18: in the metadata auditTimestamps returns, the missing, unparsable and
\* parseable points add up to totalPointsChecked, each counter being the
\* number of points of its kind, and the duplicate, backward and strictly
\* increasing counters add up to the number of parseable points less one (0
\* when there is none): the first parseable point is in no comparison counter.
C18_CountersPartitionPoints ==
  TsReturned =>
    LET m == auditMetadata[1]
        parseable == Cardinality(ParseablePoints)
    IN /\ m.totalPointsChecked = Len(points)
       /\ m.missingTimestampCount = Cardinality(MissingPoints)
       /\ m.unparsableTimestampCount = Cardinality(UnparsablePoints)
       /\ m.missingTimestampCount + m.unparsableTimestampCount + parseable
            = m.totalPointsChecked
       /\ m.duplicateTimestampCount + m.backwardTimestampCount + m.strictlyIncreasingCount
            = (IF parseable = 0 THEN 0 ELSE parseable - 1)
       /\ Len(m.duplicateTimestampEvents) = m.duplicateTimestampCount
       /\ Len(m.backwardTimestampEvents) = m.backwardTimestampCount

\* metadata for a track with a duplicate, a backward and an increasing
\* timestamp and a point that was skipped
C18_Witness ==
  /\ TsReturned
  /\ auditMetadata[1].duplicateTimestampCount = 1
  /\ auditMetadata[1].backwardTimestampCount = 1
  /\ auditMetadata[1].strictlyIncreasingCount = 1
  /\ auditMetadata[1].totalPointsChecked = 4

\* metadata for a track with a missing and an unparseable timestamp
C18_SkippedReached ==
  /\ TsReturned
  /\ auditMetadata[1].missingTimestampCount > 0
  /\ auditMetadata[1].unparsableTimestampCount > 0
  /\ auditMetadata[1].strictlyIncreasingCount > 0

(***************************************************************************)
(* Properties of parseGPX.                                                 *)
(***************************************************************************)
GpxReturned == pc = "gpxDone" /\ gpxResult # Null

\* whether an element passes coordinate validation
ElementValid(e) ==
  LET lat == parseFloat(e.lat)
      lon == parseFloat(e.lon)
  IN /\ lat.k = "fin" /\ lon.k = "fin"
     /\ -90 <= lat.v /\ lat.v <= 90
     /\ -180 <= lon.v /\ lon.v <= 180

\* a point or an element without its index: type and coordinates
Signature(tag, lat, lon) == <<tag, lat, lon>>

\* the valid elements of the document, in document order
ValidInDocumentOrder ==
  LET kept == SelectSeq(gpxDoc[1].elements, ElementValid)
  IN [k \in 1..Len(kept) |->
        Signature(kept[k].tag, parseFloat(kept[k].lat), parseFloat(kept[k].lon))]

\* the points parseGPX returned, in the order of the returned array
ReturnedOrder ==
  [k \in 1..Len(gpxResult[1].points) |->
     Signature(gpxResult[1].points[k].pointType, gpxResult[1].points[k].lat,
               gpxResult[1].points[k].lon)]

\* C19: parseGPX returns the valid points in the order in which they appear in
\* the document, for every document, interleaved point types included.
C19_DocumentOrderPreserved == GpxReturned => ReturnedOrder = ValidInDocumentOrder

\* the document holds all its wpt before all its rtept before all its trkpt
TypesInBlocks ==
  LET rank(t) == IF t = "wpt" THEN 1 ELSE IF t = "rtept" THEN 2 ELSE 3
      els == gpxDoc[1].elements
  IN \A j \in 1..Len(els) : \A k \in j..Len(els) : rank(els[j].tag) <= rank(els[k].tag)

\* C19, per point type: the returned points of one type are the valid
\* elements of that type in document order, and the whole order is the
\* document's when the document holds its types in blocks
C19_OrderWithinEachType ==
  GpxReturned =>
    /\ \A t \in Tags :
         SelectSeq(ReturnedOrder, LAMBDA p : p[1] = t)
           = SelectSeq(ValidInDocumentOrder, LAMBDA p : p[1] = t)
    /\ TypesInBlocks => ReturnedOrder = ValidInDocumentOrder

\* C20: the stats parseGPX returns hold rejectedCoordinates, one event
\* {index, reason} for each point discarded by coordinate validation, so its
\* length is pointsDiscarded.
C20_RejectedCoordinatesListed ==
  GpxReturned =>
    /\ "rejectedCoordinates" \in DOMAIN gpxResult[1].stats
    /\ Len(gpxResult[1].stats.rejectedCoordinates) = gpxResult[1].stats.pointsDiscarded
    /\ \A k \in 1..Len(gpxResult[1].stats.rejectedCoordinates) :
         DOMAIN gpxResult[1].stats.rejectedCoordinates[k] = {"index", "reason"}

\* C20, what the stats do hold: three counters, pointsDiscarded being the
\* number of elements that fail validation and the three adding up
C20_StatsCounters ==
  GpxReturned =>
    LET stats == gpxResult[1].stats
        els == gpxDoc[1].elements
    IN /\ DOMAIN stats = {"totalPointsFound", "pointsDiscarded", "remainingPoints"}
       /\ stats.totalPointsFound = Len(els)
       /\ stats.pointsDiscarded = Cardinality({ k \in 1..Len(els) : ~ElementValid(els[k]) })
       /\ stats.remainingPoints = Len(gpxResult[1].points)
       /\ stats.pointsDiscarded + stats.remainingPoints = stats.totalPointsFound

(***************************************************************************)
(* Properties of a page session.                                           *)
(***************************************************************************)
\* the step taken is the return of auditSampling
ReturnStep == pc = "joint" /\ pc' = "done"

PairDistance(k) ==
  haversineDistance(points[k].lat, points[k].lon, points[k + 1].lat, points[k + 1].lon)

\* the consecutive pairs whose distance is finite and positive, and their
\* distances in input order
MovingPairs == { k \in 1..(Len(points) - 1) : PositiveFinite(PairDistance(k)) }

MovingDistances ==
  SelectSeq([k \in 1..(Len(points) - 1) |-> PairDistance(k)], PositiveFinite)

\* C22: the geometry-only path runs for every consecutive pair of points,
\* whatever their timestamps: for n points consecutivePointPairsConsidered is
\* max(0, n - 1), the geometry-only series and rejectedDistanceInvalidOrZero
\* add up to it, and series and counters are determined by the coordinates
\* alone (the series is the sequence of positive distances of the consecutive
\* pairs, the rejections are the remaining pairs).
C22_GeometryOnlyEveryPair ==
  /\ PrimaryDone =>
       /\ audit.consecutivePointPairsConsidered
            = (IF Len(points) = 0 THEN 0 ELSE Len(points) - 1)
       /\ Len(audit.distanceDeltasMGeometryOnly) + audit.rejectedDistanceInvalidOrZero
            = audit.consecutivePointPairsConsidered
       /\ audit.distanceDeltasMGeometryOnly = MovingDistances
       /\ audit.rejectedDistanceInvalidOrZero
            = Cardinality((1..(Len(points) - 1)) \ MovingPairs)
  /\ Returned =>
       /\ result[1].consecutivePointPairsConsidered
            = (IF Len(points) = 0 THEN 0 ELSE Len(points) - 1)
       /\ Len(result[1].distanceDeltasMGeometryOnly)
            + result[1].rejectedDistanceInvalidOrZero
            = result[1].consecutivePointPairsConsidered
       /\ result[1].distanceDeltasMGeometryOnly = MovingDistances
       /\ result[1].rejectedDistanceInvalidOrZero
            = Cardinality((1..(Len(points) - 1)) \ MovingPairs)

\* a result for three points without any parseable timestamp, one pair moving
\* and one at rest
C22_Witness ==
  /\ Returned
  /\ Len(points) = 3
  /\ \A k \in 1..3 : ~hasValidTimestamp(points[k])
  /\ points[2].timeRaw # points[3].timeRaw
  /\ result[1].consecutivePointPairsConsidered = 2
  /\ Len(result[1].distanceDeltasMGeometryOnly) = 1
  /\ result[1].rejectedDistanceInvalidOrZero = 1

\* the parsed timestamp of the k-th point, which carries a valid one
TimestampOf(k) == DateParse(points[k].timeRaw[1]).v

\* the nearest timestamped point before the k-th, 0 when there is none
PrevTimestamped(k) ==
  LET earlier == { j \in 1..(k - 1) : hasValidTimestamp(points[j]) }
  IN IF earlier = {} THEN 0 ELSE CHOOSE j \in earlier : \A m \in earlier : m <= j

\* the k-th point is timestamped, later than the nearest timestamped point
\* before it
PositiveDeltaAt(k) ==
  /\ hasValidTimestamp(points[k])
  /\ PrevTimestamped(k) > 0
  /\ TimestampOf(k) > TimestampOf(PrevTimestamped(k))

\* the points, in input order, that close a pair with a positive time delta
\* and have moved from the point immediately before them
TimeConditionedPoints ==
  LET Appends(k) == PositiveDeltaAt(k) /\ PositiveFinite(PairDistance(k - 1))
  IN SelectSeq([k \in 1..(Len(points) - 1) |-> k + 1], Appends)

\* C23: the distance appended to distanceDeltasMTimeConditioned for a
\* timestamped point with a positive time delta is the haversine distance from
\* the point immediately before it in the input, timestamped or not; the
\* series is made of these distances, in input order.
C23_TimeConditionedFromPreviousPoint ==
  /\ PrimaryDone =>
       audit.distanceDeltasMTimeConditioned
         = [n \in 1..Len(TimeConditionedPoints) |-> PairDistance(TimeConditionedPoints[n] - 1)]
  /\ Returned =>
       result[1].distanceDeltasMTimeConditioned
         = [n \in 1..Len(TimeConditionedPoints) |-> PairDistance(TimeConditionedPoints[n] - 1)]

\* a result for a track whose second point has no timestamp and lies
\* elsewhere than the first: the distance stored for the third point is the
\* one from the second point, which differs from the one from the first
C23_Witness ==
  /\ Returned
  /\ Len(points) = 3
  /\ hasValidTimestamp(points[1])
  /\ ~hasValidTimestamp(points[2])
  /\ PositiveDeltaAt(3)
  /\ result[1].distanceDeltasMTimeConditioned = <<PairDistance(2)>>
  /\ PairDistance(2) # haversineDistance(points[1].lat, points[1].lon,
                                         points[3].lat, points[3].lon)

(***************************************************************************)
(* Properties of the previous-timestamp anchor of the primary loop.        *)
(***************************************************************************)
\* the points the primary loop has processed so far
Processed == IF pc = "primary" THEN i ELSE Len(points)

\* the timestamped points, in input order, that have a timestamped point
\* before them, by the sign of the delta to the nearest one
ForwardPoints == SelectSeq([k \in 1..Len(points) |-> k], PositiveDeltaAt)

NonForwardPoints ==
  LET Rejected(k) ==
        hasValidTimestamp(points[k]) /\ PrevTimestamped(k) > 0 /\ ~PositiveDeltaAt(k)
  IN SelectSeq([k \in 1..Len(points) |-> k], Rejected)

\* C24: after the primary loop has processed a point, the previous-timestamp
\* anchor is the most recent processed point whose timeRaw parses, also when
\* that point's own delta was rejected, and a point without a parseable
\* timeRaw leaves it alone; so every stored delta and every rejected one is
\* measured from the nearest earlier timestamped point.
C24_AnchorIsLatestTimestamped ==
  /\ pc \in {"primary", "joint", "done"} =>
       LET j == PrevTimestamped(Processed + 1)
       IN /\ j = 0 => /\ audit.previousTimestampMs = Null
                      /\ audit.previousTimestampIndex = Null
          /\ j > 0 => /\ audit.previousTimestampMs = Some(Fin(TimestampOf(j)))
                      /\ audit.previousTimestampIndex = Some(j - 1)
  /\ PrimaryDone =>
       /\ audit.timeDeltasMs
            = [n \in 1..Len(ForwardPoints) |->
                 Fin(TimestampOf(ForwardPoints[n])
                       - TimestampOf(PrevTimestamped(ForwardPoints[n])))]
       /\ audit.nonPositiveTimeDeltaEvents
            = [n \in 1..Len(NonForwardPoints) |->
                 [ index |-> NonForwardPoints[n] - 1,
                   prevIndex |-> PrevTimestamped(NonForwardPoints[n]) - 1,
                   delta |-> Fin(TimestampOf(NonForwardPoints[n])
                                   - TimestampOf(PrevTimestamped(NonForwardPoints[n]))) ] ]

\* a result for a track whose second point steps back in time and whose third
\* returns to the time of the first: the third delta is measured from the
\* second point, whose own delta was rejected
C24_Witness ==
  /\ Returned
  /\ Len(points) = 3
  /\ \A k \in 1..3 : hasValidTimestamp(points[k])
  /\ TimestampOf(1) = 2500 /\ TimestampOf(2) = 1000 /\ TimestampOf(3) = 2500
  /\ result[1].timeDeltasMs = <<Fin(1500)>>
  /\ result[1].rejectedTimestampPairsDeltaLeqZero = 1
  /\ audit.previousTimestampIndex = Some(2)

\* a track with a point without timestamp between two timestamped ones has
\* been processed: the delta spans the gap
C24_GapReached ==
  /\ Returned
  /\ Len(points) = 3
  /\ hasValidTimestamp(points[1]) /\ ~hasValidTimestamp(points[2])
  /\ result[1].timeDeltasMs = <<Fin(1500)>>

(***************************************************************************)
(* Properties of the joint time-distance pass.                             *)
(***************************************************************************)
\* the step taken is an iteration of the joint loop, on the point JointPoint
JointStep == pc = "joint" /\ pc' = "joint" /\ i' = i + 1

JointPoint == i + 1

\* the joint loop pairs a timestamped point with the nearest timestamped
\* point before it
JointPaired(k) == hasValidTimestamp(points[k]) /\ PrevTimestamped(k) > 0

JointDt(k) == TimestampOf(k) - TimestampOf(PrevTimestamped(k))

JointDistance(k) ==
  haversineDistance(points[PrevTimestamped(k)].lat, points[PrevTimestamped(k)].lon,
                    points[k].lat, points[k].lon)

\* C25: in the joint pass the rejection reasons non-positive dt and invalid or
\* zero distance are counted independently, a pair with both counting under
\* both; jointRejectedMissingTimestamp is raised only for a point without a
\* timestamp and never in the same iteration as the other two; hence
\* jointPairsWithBothTimestamps <= length(timeDistancePairs) +
\* jointRejectedNonPositiveDt + jointRejectedInvalidOrZeroDistance.
C25_JointRejectionsIndependent ==
  /\ [][JointStep =>
          /\ (JointPaired(JointPoint) /\ JointDt(JointPoint) <= 0) =>
               audit'.jointRejectedNonPositiveDt = audit.jointRejectedNonPositiveDt + 1
          /\ (JointPaired(JointPoint) /\ ~PositiveFinite(JointDistance(JointPoint))) =>
               audit'.jointRejectedInvalidOrZeroDistance
                 = audit.jointRejectedInvalidOrZeroDistance + 1
          /\ audit'.jointRejectedMissingTimestamp # audit.jointRejectedMissingTimestamp =>
               /\ ~hasValidTimestamp(points[JointPoint])
               /\ audit'.jointRejectedMissingTimestamp
                    = audit.jointRejectedMissingTimestamp + 1
               /\ audit'.jointRejectedNonPositiveDt = audit.jointRejectedNonPositiveDt
               /\ audit'.jointRejectedInvalidOrZeroDistance
                    = audit.jointRejectedInvalidOrZeroDistance
               /\ audit'.jointPairsWithBothTimestamps = audit.jointPairsWithBothTimestamps]_vars
  /\ [](/\ audit # <<>> =>
             audit.jointPairsWithBothTimestamps
               <= Len(audit.timeDistancePairs) + audit.jointRejectedNonPositiveDt
                    + audit.jointRejectedInvalidOrZeroDistance
        /\ Returned =>
             result[1].jointPairsWithBothTimestamps
               <= Len(result[1].timeDistancePairs) + result[1].jointRejectedNonPositiveDt
                    + result[1].jointRejectedInvalidOrZeroDistance)

\* a result with one stored pair and one pair refused for both reasons: the
\* three numbers add up to more than the pairs considered
C25_Witness ==
  /\ Returned
  /\ result[1].jointPairsWithBothTimestamps = 2
  /\ Len(result[1].timeDistancePairs) = 1
  /\ result[1].jointRejectedNonPositiveDt = 1
  /\ result[1].jointRejectedInvalidOrZeroDistance = 1

\* a result with a point counted as lacking a timestamp
C25_MissingReached ==
  /\ Returned
  /\ result[1].jointRejectedMissingTimestamp = 1
  /\ result[1].jointPairsWithBothTimestamps = 1

(***************************************************************************)
(* Properties of the slider handlers.                                      *)
(***************************************************************************)
\* the time deltas of the last visualizeSamplingData call, in seconds
LastTimeDeltasSec ==
  [k \in 1..Len(samplingData.timeDeltasMs) |-> fDiv(samplingData.timeDeltasMs[k], Fin(1000))]

\* the plots are the curves of the stored datasets at the stored bandwidths,
\* and their peaks
PlotsMatchWindow ==
  /\ plots.timeKDE = computeKDE(window.kdeTimeDeltasSec[1],
                                window.kdeTimeBandwidthLog[1], DefaultNumPoints)
  /\ plots.timePeaks = detectPeaks(plots.timeKDE)
  /\ plots.distanceKDE = computeKDE(window.kdeDistanceDeltasM[1],
                                    window.kdeDistanceBandwidthLog[1], DefaultNumPoints)
  /\ plots.distancePeaks = detectPeaks(plots.distanceKDE)

\* C26: updateTimeKDE(b) recomputes the time curve in full from the time
\* dataset stored by the most recent visualizeSamplingData call, with
\* bandwidth b, and records b as the stored time bandwidth; it leaves the
\* stored distance dataset, distance bandwidth and distance plot alone.  When
\* the stored dataset is absent or empty it changes nothing and draws nothing.
\* Symmetrically for updateDistanceKDE.
C26_SliderRecomputesOneCurve ==
  /\ [](window = NoWindow => plots = NoPlots)
  /\ [](window # NoWindow => PlotsMatchWindow)
  /\ []((pc = "shown" /\ AuditIdle) =>
          /\ window.kdeTimeDeltasSec = Some(LastTimeDeltasSec)
          /\ window.kdeDistanceDeltasM = Some(samplingData.distanceDeltasM))
  /\ [][\A b \in TimeSliderValues :
          UpdateTimeKDE(b) =>
            IF window.kdeTimeDeltasSec = Null \/ window.kdeTimeDeltasSec[1] = <<>>
            THEN window' = window /\ plots' = plots
            ELSE /\ window' = [window EXCEPT !.kdeTimeBandwidthLog = Some(b)]
                 /\ plots'.distanceKDE = plots.distanceKDE
                 /\ plots'.distancePeaks = plots.distancePeaks]_vars
  /\ [][\A b \in DistanceSliderValues :
          UpdateDistanceKDE(b) =>
            IF window.kdeDistanceDeltasM = Null \/ window.kdeDistanceDeltasM[1] = <<>>
            THEN window' = window /\ plots' = plots
            ELSE /\ window' = [window EXCEPT !.kdeDistanceBandwidthLog = Some(b)]
                 /\ plots'.timeKDE = plots.timeKDE
                 /\ plots'.timePeaks = plots.timePeaks]_vars

\* both sliders have been moved after a visualization of two non-empty
\* series: each plot is the curve of the stored series at the slider's value
C26_Witness ==
  /\ pc = "shown"
  /\ samplingData.timeDeltasMs = <<Fin(4000)>>
  /\ samplingData.distanceDeltasM = <<Fin(8000)>>
  /\ window.kdeTimeDeltasSec = Some(<<Fin(4000)>>)
  /\ window.kdeTimeBandwidthLog = Some(Fin(-357))
  /\ window.kdeDistanceBandwidthLog = Some(Fin(500))
  /\ plots.timeKDE # <<>>
  /\ plots.distanceKDE # <<>>

\* the time slider was moved while the stored time dataset was empty, the
\* distance dataset not: nothing is drawn for the time deltas
C26_EmptyDatasetReached ==
  /\ pc = "shown"
  /\ window.kdeTimeDeltasSec = Some(<<>>)
  /\ window.kdeTimeBandwidthLog = Some(PosInf)
  /\ window.kdeDistanceBandwidthLog = Some(Fin(500))
  /\ plots.timeKDE = <<>>

(***************************************************************************)
(* Properties of the presence scan of auditSampling.                       *)
(***************************************************************************)
\* the points whose timeRaw parses
TimestampedPoints == { k \in 1..Len(points) : hasValidTimestamp(points[k]) }

\* C27: the presence scan sets hasValidTimestamps exactly when some point has
\* a timeRaw that parses, and no later step reads the flag: with the flag
\* false as with it true the geometry-only path has run over every pair, the
\* time series holds the deltas of the timestamped points, and the flag stays
\* as the scan left it.  hasTimeProgression implies hasValidTimestamps.
C27_PresenceFlagDescriptive ==
  /\ pc # "scan" =>
       /\ audit.hasValidTimestamps <=> TimestampedPoints # {}
       /\ audit.hasTimeProgression => audit.hasValidTimestamps
  /\ Returned =>
       /\ result[1].hasValidTimestamps <=> TimestampedPoints # {}
       /\ result[1].hasTimeProgression => result[1].hasValidTimestamps
       /\ result[1].distanceDeltasMGeometryOnly = MovingDistances
       /\ Len(result[1].timeDeltasMs) = Len(ForwardPoints)
       /\ result[1].rejectedTimestampPairsDeltaLeqZero = Len(NonForwardPoints)
       /\ result[1].distanceDeltasM =
            (IF ForwardPoints # <<>>
             THEN result[1].distanceDeltasMTimeConditioned ELSE MovingDistances)

\* a result whose only parseable timestamp is on the last of three points:
\* the flag is set, there is no progression, the geometry-only series is the
\* primary one
C27_Witness ==
  /\ Returned
  /\ Len(points) = 3
  /\ TimestampedPoints = {3}
  /\ result[1].hasValidTimestamps
  /\ ~result[1].hasTimeProgression
  /\ result[1].distanceDeltasM # <<>>

\* a result without any parseable timestamp, the distances collected all the
\* same
C27_NoTimestampReached ==
  /\ Returned
  /\ ~result[1].hasValidTimestamps
  /\ Len(result[1].distanceDeltasMGeometryOnly) = 2

(***************************************************************************)
(* Properties of the two audits run on the same points.                    *)
(***************************************************************************)
BothReturned == Returned /\ auditMetadata # Null

\* the 0-based indices of the points an event list flags
EventIndices(events) == { events[k].index : k \in 1..Len(events) }

\* C28: on the same points auditSampling and auditTimestamps classify the
\* same pairs of consecutive timestamps: totalDeltaCount, the length of
\* timeDeltasMs, is strictlyIncreasingCount, and
\* rejectedTimestampPairsDeltaLeqZero, the length of
\* nonPositiveTimeDeltaEvents, is duplicateTimestampCount +
\* backwardTimestampCount; the rejected points are the duplicate and the
\* backward ones.
C28_AuditsClassifyAlike ==
  BothReturned =>
    /\ result[1].totalDeltaCount = auditMetadata[1].strictlyIncreasingCount
    /\ Len(result[1].timeDeltasMs) = auditMetadata[1].strictlyIncreasingCount
    /\ result[1].rejectedTimestampPairsDeltaLeqZero
         = Len(result[1].nonPositiveTimeDeltaEvents)
    /\ result[1].rejectedTimestampPairsDeltaLeqZero
         = auditMetadata[1].duplicateTimestampCount
             + auditMetadata[1].backwardTimestampCount
    /\ EventIndices(result[1].nonPositiveTimeDeltaEvents)
         = EventIndices(auditMetadata[1].duplicateTimestampEvents)
             \cup EventIndices(auditMetadata[1].backwardTimestampEvents)

\* both audits have returned for a track with an increasing, a duplicate and
\* a backward pair
C28_Witness ==
  /\ BothReturned
  /\ auditMetadata[1].strictlyIncreasingCount = 1
  /\ auditMetadata[1].duplicateTimestampCount = 1
  /\ auditMetadata[1].backwardTimestampCount = 1
  /\ auditMetadata[1].unparsableTimestampCount + auditMetadata[1].missingTimestampCount = 0
  /\ result[1].totalDeltaCount = 1
  /\ result[1].rejectedTimestampPairsDeltaLeqZero = 2

\* both audits have returned for a track with an unparseable timestamp
\* between an increasing pair
C28_UnparseableReached ==
  /\ BothReturned
  /\ auditMetadata[1].unparsableTimestampCount = 1
  /\ auditMetadata[1].strictlyIncreasingCount = 1
  /\ result[1].totalDeltaCount = 1

(***************************************************************************)
(* Properties relating the series of auditSampling to one another.         *)
(***************************************************************************)
\* a is b with some elements left out
RECURSIVE IsSubsequence(_, _)
IsSubsequence(a, b) ==
  IF a = <<>> THEN TRUE
  ELSE IF b = <<>> THEN FALSE
  ELSE IF Head(a) = Head(b) THEN IsSubsequence(Tail(a), Tail(b))
  ELSE IsSubsequence(a, Tail(b))

C29_ShorterReached ==
  /\ Returned
  /\ Len(result[1].timeDeltasMs) = 1
  /\ result[1].distanceDeltasMTimeConditioned = <<>>
  /\ result[1].distanceDeltasMGeometryOnly # <<>>

(***************************************************************************)
(* Properties relating the joint pass to the primary pass.                 *)
(***************************************************************************)
\* the joint pass has run and auditSampling has returned
JointPassReturned == Returned /\ result[1].hasTimeProgression

\* the dtSec values of the stored pairs, and the stored time deltas divided
\* by 1000 as the joint pass divides them
PairSeconds ==
  [n \in 1..Len(result[1].timeDistancePairs) |-> result[1].timeDistancePairs[n].dtSec]

TimeDeltasSec ==
  [n \in 1..Len(result[1].timeDeltasMs) |-> fDiv(result[1].timeDeltasMs[n], Fin(1000))]

\* dtSec * 1000 in double arithmetic, for the quotients dtSec the model's
\* timestamps give: 0.499 * 1000 is 499 and 1.5 * 1000 is 1500, but
\* 1.001 * 1000 is 1000.9999999999999, one unit in the last place below 1001
TimesThousand(dtSec) ==
  CASE dtSec.v = 499 -> Fin(499)
    [] dtSec.v = 1500 -> Fin(1500)
    [] dtSec.v = 1001 -> [k |-> "fin", v |-> 1001, ulps |-> -1]

\* C30, the counts: when the joint pass runs it considers the timestamp pairs
\* of the primary pass: jointPairsWithBothTimestamps is the number of
\* timestamped points less one and jointRejectedNonPositiveDt is
\* rejectedTimestampPairsDeltaLeqZero.
C30_JointCounts ==
  JointPassReturned =>
    /\ result[1].jointPairsWithBothTimestamps = Cardinality(TimestampedPoints) - 1
    /\ result[1].jointRejectedNonPositiveDt = result[1].rejectedTimestampPairsDeltaLeqZero
    /\ Len(result[1].timeDistancePairs) <= Len(result[1].timeDeltasMs)

====
